---- MODULE Spec2Model ----
(***************************************************************************)
(* Page-ownership tracker (riscv-page-tables/src/page_info.rs) and TEE     *)
(* control plane (src/vm.rs, sbi/src/sbi.rs) of the salus hypervisor.      *)
(*                                                                         *)
(* These state machines share this module:                                 *)
(*   Spec     one PageInfo under push_owner / pop_owner / pop_owners_while *)
(*            / owner / find_owner                                         *)
(*   SpecMap  a PageMap populated from a memory map, then queried          *)
(*   SpecTee  the TEE calls of a host VM against its guest registry        *)
(*   SpecGuest the TEE calls of a guest VM, which has no registry          *)
(*   SpecSparse  as SpecMap, with memory maps of up to MaxRuns separate runs *)
(*   SpecMut  a populated PageMap changed through get_mut                   *)
(*   SpecBuild  a PageMap built by build_from, its array placed in the map  *)
(*   SpecSbi  ecalls of a VM: register decoding, dispatch, register return *)
(*   SpecLoop the loop of Vm::run: ecalls, guest page faults, other traps  *)
(*   SpecRun  the TEE calls of a host VM, with the hart inside Vm::run of   *)
(*            a guest between the start and the return of a Run call       *)
(***************************************************************************)
EXTENDS Integers, Sequences, FiniteSets, TLC

VARIABLES
    page,        \* the PageInfo under test
    before,      \* the PageInfo as it was when the last operation started
    before2,     \* the PageInfo as it was when the operation before that started
    op,          \* name of the last operation on `page`
    prev_op,     \* name of the operation before the last
    arg,         \* argument of the last operation (owner id, or predicate as a set)
    prev_arg,    \* argument of the operation before the last
    res,         \* what the last operation returned
    prev_res,    \* what the operation before the last returned
    mem_map,     \* HwMemMap: the ordered regions the PageMap is built from
    pages,       \* PageMap.pages: sequence of PageInfo
    sparse_map,  \* PageMap.sparse_map: sequence of SparseMapEntry
    mstate,      \* "new" (PageMap::new done) or "populated" (populate_from done)
    mop,         \* last PageMap query
    maddr,       \* its address argument
    mres,        \* its result
    guests,      \* the host Vm's `guests` field: Option<Guests>
    guest_slots, \* entries the tracking pages given to the host Vm can hold
    phys,        \* ownership record of every frame the TEE calls can name
    next_id,     \* raw value of the next guest PageOwnerId to be minted
    tee_call,    \* the last TEE function dispatched, with its arguments
    tee_ret,     \* the SbiReturn of the last TEE function
    tee_before,  \* guests and phys as they were when the last TEE call started
    finalized,   \* guest ids for which a Finalize call has returned success
    hart,        \* "vm": the calling VM executes; "trap": a TEE call of that VM has
                 \* been handled and its SbiReturn is in the VM's A0/A1
    self_id,     \* PageOwnerId of the VM whose ecalls are being handled
    gprs,        \* the VM's registers a0..a7 (self.info.gprs), from the load before
                 \* an ecall until the caller has read the return
    gprs_in,     \* the registers as they were when the ecall trapped
    sepc,        \* the VM's sepc, counted from its entry address
    sent,        \* the SbiMessage the caller encoded into the registers, if it did
    msg,         \* what SbiMessage::from_regs made of the registers
    sbi_result,  \* what SbiMessage::result gave the caller after the return
    run_id,      \* id of the guest whose Vm::run loop the hart is in (0: none)
    guest_ret,   \* the SbiReturn of the last TEE call of the running guest
    trap,        \* the last trap run_to_exit returned inside Vm::run
    run_ret,     \* the Trap Vm::run returned, none while the loop goes on
    handled,     \* ecalls for which handle_ecall has returned
    destroyed    \* guest ids for which TvmDestroy has returned success and which
                 \* no TvmCreate has returned since

pvars == <<page, before, before2, op, prev_op, arg, prev_arg, res, prev_res>>
mvars == <<mem_map, pages, sparse_map, mstate, mop, maddr, mres>>
tvars == <<guests, guest_slots, phys, next_id, tee_call, tee_ret, tee_before, finalized, hart,
           self_id>>
svars == <<gprs, gprs_in, sepc, sent, msg, sbi_result>>
rvars == <<run_id, guest_ret>>
lvars == <<trap, run_ret, handled>>
dvars == <<destroyed>>
vars == <<pvars, mvars, tvars, svars, rvars, lvars, dvars>>

-----------------------------------------------------------------------------
(* Option and Result values                                                *)

None == [some |-> FALSE]
Some(x) == [some |-> TRUE, val |-> x]
Ok(x) == [ok |-> TRUE, val |-> x]
Err(e) == [ok |-> FALSE, err |-> e]
Unit == "unit"

-----------------------------------------------------------------------------
(* Bounds                                                                  *)

\* Largest raw PageOwnerId used as an argument in Spec (0 hypervisor, 1 host, 2.. guests)
MaxOwnerId == 2
\* Iterations of the pop_owners_while loop the model follows before giving up
MaxLoopIters == 4

OwnerIds == 0..MaxOwnerId
Predicates == SUBSET OwnerIds

-----------------------------------------------------------------------------
(* PageOwnerId                                                             *)

hypervisor == 0
host == 1

\* PageOwnerId::new: the two distinguished ids cannot be named by a raw guest id
PageOwnerId_new(id) == IF id = hypervisor \/ id = host THEN None ELSE Some(id)

-----------------------------------------------------------------------------
(* PageInfo                                                                *)

MAX_PAGE_OWNERS == 3

Reserved == [tag |-> "Reserved", owners |-> <<>>]
Free == [tag |-> "Free", owners |-> <<>>]
Owned(owners) == [tag |-> "Owned", owners |-> owners]

new == Free

new_hypervisor_owned == Owned(<<hypervisor>>)

new_reserved == Reserved

\* Mutant: reads the bottom of the stack instead of the top
owner_reads_bottom(p) ==
    IF p.tag = "Owned" THEN Some(p.owners[1]) ELSE None

owner(p) ==
    IF p.tag = "Owned" THEN Some(p.owners[Len(p.owners)]) ELSE None

is_free(p) == p.tag = "Free"

is_reserved(p) == p.tag = "Reserved"

\* ArrayVec::pop on the owner vector
ArrayVec_pop(owners) == SubSeq(owners, 1, Len(owners) - 1)

\* Mutant: guards against an empty vector instead of the last owner
pop_owner_pops_last(p) ==
    CASE p.tag = "Owned" ->
            IF Len(p.owners) = 0
            THEN [page |-> p, res |-> Err("OwnerOverflow")]
            ELSE [page |-> Owned(ArrayVec_pop(p.owners)),
                  res |-> Ok(p.owners[Len(p.owners)])]
      [] p.tag = "Reserved" -> [page |-> p, res |-> Err("ReservedPage")]
      [] p.tag = "Free" -> [page |-> p, res |-> Err("UnownedPage")]

\* Mutant: the oldest owner is taken out instead of the newest
pop_owner_from_bottom(p) ==
    CASE p.tag = "Owned" ->
            IF Len(p.owners) = 1
            THEN [page |-> p, res |-> Err("OwnerOverflow")]
            ELSE [page |-> Owned(Tail(p.owners)), res |-> Ok(p.owners[1])]
      [] p.tag = "Reserved" -> [page |-> p, res |-> Err("ReservedPage")]
      [] p.tag = "Free" -> [page |-> p, res |-> Err("UnownedPage")]

\* Mutant: popping the last owner returns the page to Free
pop_owner_frees_last(p) ==
    CASE p.tag = "Owned" ->
            IF Len(p.owners) = 1
            THEN [page |-> Free, res |-> Ok(p.owners[1])]
            ELSE [page |-> Owned(ArrayVec_pop(p.owners)),
                  res |-> Ok(p.owners[Len(p.owners)])]
      [] p.tag = "Reserved" -> [page |-> p, res |-> Err("ReservedPage")]
      [] p.tag = "Free" -> [page |-> p, res |-> Err("UnownedPage")]

pop_owner(p) ==
    CASE p.tag = "Owned" ->
            IF Len(p.owners) = 1
            THEN [page |-> p, res |-> Err("OwnerOverflow")]
            ELSE [page |-> Owned(ArrayVec_pop(p.owners)),
                  res |-> Ok(p.owners[Len(p.owners)])]
      [] p.tag = "Reserved" -> [page |-> p, res |-> Err("ReservedPage")]
      [] p.tag = "Free" -> [page |-> p, res |-> Err("UnownedPage")]

\* ArrayVec::try_push on the owner vector: fails when the vector is at capacity
ArrayVec_try_push(owners, id) ==
    IF Len(owners) >= MAX_PAGE_OWNERS THEN Err("CapacityError") ELSE Ok(Append(owners, id))

\* Mutant: pushes with ArrayVec::push semantics minus the capacity check
push_owner_no_overflow(p, id) ==
    CASE p.tag = "Owned" -> [page |-> Owned(Append(p.owners, id)), res |-> Ok(Unit)]
      [] p.tag = "Free" -> [page |-> Owned(<<id>>), res |-> Ok(Unit)]
      [] p.tag = "Reserved" -> [page |-> p, res |-> Err("ReservedPage")]

\* Mutant: treats a Reserved page like a Free one
push_owner_claims_reserved(p, id) ==
    CASE p.tag = "Owned" ->
            LET r == ArrayVec_try_push(p.owners, id)
            IN  IF r.ok THEN [page |-> Owned(r.val), res |-> Ok(Unit)]
                ELSE [page |-> p, res |-> Err("OwnerOverflow")]
      [] p.tag \in {"Free", "Reserved"} -> [page |-> Owned(<<id>>), res |-> Ok(Unit)]

\* Mutant: a single-owner record, the new owner replaces the chain of custody
push_owner_replaces_chain(p, id) ==
    CASE p.tag \in {"Owned", "Free"} -> [page |-> Owned(<<id>>), res |-> Ok(Unit)]
      [] p.tag = "Reserved" -> [page |-> p, res |-> Err("ReservedPage")]

push_owner(p, id) ==
    CASE p.tag = "Owned" ->
            LET r == ArrayVec_try_push(p.owners, id)
            IN  IF r.ok THEN [page |-> Owned(r.val), res |-> Ok(Unit)]
                ELSE [page |-> p, res |-> Err("OwnerOverflow")]
      [] p.tag = "Free" -> [page |-> Owned(<<id>>), res |-> Ok(Unit)]
      [] p.tag = "Reserved" -> [page |-> p, res |-> Err("ReservedPage")]

\* The loop of pop_owners_while; check(o) is o \in S. `fuel` is the number of
\* iterations still followed; done is FALSE when the loop had not exited by then.
RECURSIVE pop_owners_while_loop(_, _, _)
pop_owners_while_loop(p, S, fuel) ==
    IF fuel = 0 THEN [page |-> p, done |-> FALSE]
    ELSE LET o == owner(p)
         IN  IF ~o.some THEN [page |-> p, done |-> TRUE]
             ELSE IF ~(o.val \in S) THEN [page |-> p, done |-> TRUE]
             ELSE LET r == pop_owner(p)
                  IN  IF ~r.res.ok THEN [page |-> r.page, done |-> TRUE]
                      ELSE pop_owners_while_loop(r.page, S, fuel - 1)

\* Mutant: the loop pops while a pop is legal and never consults `check`
pop_owners_while_ignores_check(p, S) == pop_owners_while_loop(p, OwnerIds, MaxLoopIters)

pop_owners_while(p, S) == pop_owners_while_loop(p, S, MaxLoopIters)

\* owners.iter().rev().find(check): first match from the top of the stack down
RECURSIVE rev_find(_, _, _)
rev_find(owners, i, S) ==
    IF i = 0 THEN None
    ELSE IF owners[i] \in S THEN Some(owners[i])
    ELSE rev_find(owners, i - 1, S)

find_owner(p, S) ==
    IF p.tag = "Owned" THEN rev_find(p.owners, Len(p.owners), S) ELSE None

-----------------------------------------------------------------------------
(* Spec: one PageInfo                                                      *)

Shift ==
    /\ before' = page
    /\ before2' = before
    /\ prev_op' = op
    /\ prev_arg' = arg
    /\ prev_res' = res

PushOwner ==
    \E id \in OwnerIds :
        LET r == push_owner(page, id)
        IN  /\ page' = r.page
            /\ res' = r.res
            /\ op' = "push_owner"
            /\ arg' = id
            /\ Shift

PopOwner ==
    LET r == pop_owner(page)
    IN  /\ page' = r.page
        /\ res' = r.res
        /\ op' = "pop_owner"
        /\ arg' = Unit
        /\ Shift

PopOwnersWhile ==
    \E S \in Predicates :
        LET r == pop_owners_while(page, S)
        IN  /\ page' = r.page
            /\ res' = [done |-> r.done]
            /\ op' = "pop_owners_while"
            /\ arg' = S
            /\ Shift

OwnerQuery ==
    /\ page' = page
    /\ res' = owner(page)
    /\ op' = "owner"
    /\ arg' = Unit
    /\ Shift

FindOwner ==
    \E S \in Predicates :
        /\ page' = page
        /\ res' = find_owner(page, S)
        /\ op' = "find_owner"
        /\ arg' = S
        /\ Shift

MapIdle ==
    /\ mem_map = <<>> /\ pages = <<>> /\ sparse_map = <<>>
    /\ mstate = "idle" /\ mop = "none" /\ maddr = Unit /\ mres = Unit

TeeIdle ==
    /\ guests = None /\ guest_slots = 0 /\ phys = <<>> /\ next_id = 0
    /\ tee_call = Unit /\ tee_ret = Unit /\ tee_before = Unit
    /\ finalized = {} /\ hart = "none" /\ self_id = hypervisor

SbiIdle ==
    /\ gprs = <<>> /\ gprs_in = <<>> /\ sepc = 0
    /\ sent = None /\ msg = None /\ sbi_result = None

NoTrap == [cause |-> "none", serviced |-> FALSE]

LoopIdle == trap = NoTrap /\ run_ret = [some |-> FALSE] /\ handled = 0

\* No TvmDestroy has returned yet
NoneDestroyed == destroyed = {}

RunIdle == run_id = 0 /\ guest_ret = [error_code |-> 0, return_value |-> 0]

PageIdle ==
    /\ page = Free /\ before = Free /\ before2 = Free
    /\ op = "none" /\ prev_op = "none" /\ arg = Unit /\ prev_arg = Unit
    /\ res = Unit /\ prev_res = Unit

Init ==
    /\ page \in {new, new_hypervisor_owned, new_reserved}
    /\ before = page /\ before2 = page
    /\ op = "new" /\ prev_op = "none" /\ arg = Unit /\ prev_arg = Unit
    /\ res = Unit /\ prev_res = Unit
    /\ MapIdle
    /\ TeeIdle
    /\ SbiIdle
    /\ RunIdle
    /\ LoopIdle /\ NoneDestroyed

Next ==
    \/ PushOwner /\ UNCHANGED <<mvars, tvars, svars, rvars, lvars, dvars>>
    \/ PopOwner /\ UNCHANGED <<mvars, tvars, svars, rvars, lvars, dvars>>
    \/ PopOwnersWhile /\ UNCHANGED <<mvars, tvars, svars, rvars, lvars, dvars>>
    \/ OwnerQuery /\ UNCHANGED <<mvars, tvars, svars, rvars, lvars, dvars>>
    \/ FindOwner /\ UNCHANGED <<mvars, tvars, svars, rvars, lvars, dvars>>

Spec == Init /\ [][Next]_vars

-----------------------------------------------------------------------------
(* HwMemMap: the memory map handed to PageMap                              *)

\* Frames 1..MaxPfn can belong to a region; queries also name 0 and MaxPfn + 1
MaxPfn == 4
\* Most regions in a memory map
MaxRegions == 3
\* Most 4 KiB frames in one region
MaxRegionPages == 2

\* HwMemType: Available, or Reserved(sub-type)
MemTypes == {"Available", "HostKernelImage", "HostInitramfsImage",
             "FirmwareReserved", "PageMap"}

\* A region: base frame number (base().index()), size in 4 KiB frames, type
Regions ==
    {r \in [base : 1..MaxPfn, size : 1..MaxRegionPages, mem_type : MemTypes] :
        r.base + r.size - 1 <= MaxPfn}

\* The memory maps of at most n regions whose first region starts at lo or above:
\* regions in ascending address order that do not overlap
RECURSIVE MemMapsFrom(_, _)
MemMapsFrom(lo, n) ==
    IF n = 0 THEN {<<>>}
    ELSE {<<>>} \cup
         UNION {{<<r>> \o rest : rest \in MemMapsFrom(r.base + r.size, n - 1)} :
                    r \in {x \in Regions : x.base >= lo}}

MemMaps == MemMapsFrom(1, MaxRegions) \ {<<>>}

-----------------------------------------------------------------------------
(* PageMap                                                                 *)

MAX_SPARSE_MAP_ENTRIES == 16

SparseMapEntry(base_pfn, num_pages, page_map_index) ==
    [base_pfn |-> base_pfn, num_pages |-> num_pages, page_map_index |-> page_map_index]

\* Mutant: only the kernel image counts as a host VM image
page_info_for_kernel_only(mem_type) ==
    CASE mem_type = "Available" -> new
      [] mem_type = "HostKernelImage" -> new_hypervisor_owned
      [] OTHER -> new_reserved

\* The match on r.mem_type() inside populate_from's frame loop
page_info_for(mem_type) ==
    CASE mem_type = "Available" -> new
      [] mem_type \in {"HostKernelImage", "HostInitramfsImage"} -> new_hypervisor_owned
      [] OTHER -> new_reserved

\* Mutant: the push finds room whatever the length
sparse_map_push_unbounded(pm, entry) ==
    [pm EXCEPT !.sparse_map = Append(pm.sparse_map, entry)]

\* ArrayVec::push on the sparse map: panics when the vector is full
sparse_map_push(pm, entry) ==
    IF Len(pm.sparse_map) >= MAX_SPARSE_MAP_ENTRIES
    THEN [pm EXCEPT !.panicked = TRUE]
    ELSE [pm EXCEPT !.sparse_map = Append(pm.sparse_map, entry)]

\* One iteration of populate_from's loop over the regions: st is the PageMap so
\* far together with current_entry
populate_region(st, r) ==
    LET starts_new == st.current_entry.base_pfn + st.current_entry.num_pages # r.base
        next_entry == SparseMapEntry(r.base, 0,
                          st.current_entry.page_map_index + st.current_entry.num_pages)
        pushed == IF starts_new THEN sparse_map_push(st, st.current_entry) ELSE st
        cur == IF starts_new THEN next_entry ELSE st.current_entry
    IN  [pushed EXCEPT
            !.pages = pushed.pages \o [i \in 1..r.size |-> page_info_for(r.mem_type)],
            !.current_entry = [cur EXCEPT !.num_pages = cur.num_pages + r.size]]

RECURSIVE populate_loop(_, _, _)
populate_loop(st, mm, i) ==
    IF i > Len(mm) THEN st
    ELSE populate_loop(populate_region(st, mm[i]), mm, i + 1)

\* populate_from on an empty PageMap (PageMap::new)
populate_from(mm) ==
    LET st0 == [pages |-> <<>>, sparse_map |-> <<>>, panicked |-> FALSE,
                current_entry |-> SparseMapEntry(mm[1].base, 0, 0)]
        st == populate_loop(st0, mm, 1)
    IN  sparse_map_push(st, st.current_entry)

\* A page address: frame number (index()) and page size (size())
PageAddr(pfn, size) == [pfn |-> pfn, size |-> size]

PageSizes == {"Size4k", "Size2M"}

is_huge(size) == size # "Size4k"

\* Mutant: the covering test admits the frame just past the end of an entry
get_map_index_inclusive_end(sm, addr) ==
    LET hits == {k \in 1..Len(sm) :
                    sm[k].base_pfn <= addr.pfn /\ addr.pfn <= sm[k].base_pfn + sm[k].num_pages}
    IN  IF hits = {} THEN None
        ELSE LET k == CHOOSE k \in hits : \A j \in hits : k <= j
             IN  Some(sm[k].page_map_index + addr.pfn - sm[k].base_pfn)

\* Mutant: the index counts from the start of the covering entry
get_map_index_within_entry(sm, addr) ==
    LET hits == {k \in 1..Len(sm) :
                    sm[k].base_pfn <= addr.pfn /\ addr.pfn < sm[k].base_pfn + sm[k].num_pages}
    IN  IF hits = {} THEN None
        ELSE LET k == CHOOSE k \in hits : \A j \in hits : k <= j
             IN  Some(addr.pfn - sm[k].base_pfn)

\* The first sparse-map entry covering the frame, mapped to its index
get_map_index(sm, addr) ==
    LET hits == {k \in 1..Len(sm) :
                    sm[k].base_pfn <= addr.pfn /\ addr.pfn < sm[k].base_pfn + sm[k].num_pages}
    IN  IF hits = {} THEN None
        ELSE LET k == CHOOSE k \in hits : \A j \in hits : k <= j
             IN  Some(sm[k].page_map_index + addr.pfn - sm[k].base_pfn)

\* PageVec::get: none when the index is past the end (indices count from 0)
PageVec_get(pv, index) ==
    IF index >= 0 /\ index < Len(pv) THEN Some(pv[index + 1]) ELSE None

\* Mutant: the page size of the address is not looked at
get_ignoring_size(pv, sm, addr) ==
    LET index == get_map_index(sm, addr)
    IN  IF ~index.some THEN None ELSE PageVec_get(pv, index.val)

get(pv, sm, addr) ==
    IF is_huge(addr.size) THEN None
    ELSE LET index == get_map_index(sm, addr)
         IN  IF ~index.some THEN None ELSE PageVec_get(pv, index.val)

\* PageVec::get_mut: the slot itself, named by its index
PageVec_get_mut(pv, index) ==
    IF index >= 0 /\ index < Len(pv) THEN Some(index) ELSE None

get_mut(pv, sm, addr) ==
    IF is_huge(addr.size) THEN None
    ELSE LET index == get_map_index(sm, addr)
         IN  IF ~index.some THEN None ELSE PageVec_get_mut(pv, index.val)

\* Mutant: the page at addr itself is not counted
num_after_excluding_addr(pv, sm, addr) ==
    IF is_huge(addr.size) THEN None
    ELSE LET index == get_map_index(sm, addr)
         IN  IF ~index.some THEN None
             ELSE IF Len(pv) > index.val THEN Some(Len(pv) - index.val - 1) ELSE None

\* len().checked_sub(index)
num_after(pv, sm, addr) ==
    IF is_huge(addr.size) THEN None
    ELSE LET index == get_map_index(sm, addr)
         IN  IF ~index.some THEN None
             ELSE IF Len(pv) >= index.val THEN Some(Len(pv) - index.val) ELSE None

-----------------------------------------------------------------------------
(* SpecMap: a PageMap populated from a memory map, then queried            *)

QueryAddrs == {PageAddr(pfn, size) : pfn \in 0..(MaxPfn + 1), size \in PageSizes}

InitMap ==
    /\ mem_map \in MemMaps
    /\ pages = <<>> /\ sparse_map = <<>>
    /\ mstate = "new" /\ mop = "new" /\ maddr = Unit /\ mres = Unit
    /\ PageIdle
    /\ TeeIdle
    /\ SbiIdle
    /\ RunIdle
    /\ LoopIdle /\ NoneDestroyed

PopulateFrom ==
    /\ mstate = "new"
    /\ LET pm == populate_from(mem_map)
       IN  /\ pages' = pm.pages
           /\ sparse_map' = pm.sparse_map
           /\ mstate' = IF pm.panicked THEN "panicked" ELSE "populated"
    /\ mop' = "populate_from" /\ maddr' = Unit /\ mres' = Unit
    /\ UNCHANGED mem_map

Get ==
    /\ mstate = "populated"
    /\ \E addr \in QueryAddrs :
        /\ mop' = "get"
        /\ maddr' = addr
        /\ mres' = [index |-> get_map_index(sparse_map, addr),
                    info |-> get(pages, sparse_map, addr)]
    /\ UNCHANGED <<mem_map, pages, sparse_map, mstate>>

NumAfter ==
    /\ mstate = "populated"
    /\ \E addr \in QueryAddrs :
        /\ mop' = "num_after"
        /\ maddr' = addr
        /\ mres' = num_after(pages, sparse_map, addr)
    /\ UNCHANGED <<mem_map, pages, sparse_map, mstate>>

NextMap ==
    \/ PopulateFrom /\ UNCHANGED <<pvars, tvars, svars, rvars, lvars, dvars>>
    \/ Get /\ UNCHANGED <<pvars, tvars, svars, rvars, lvars, dvars>>
    \/ NumAfter /\ UNCHANGED <<pvars, tvars, svars, rvars, lvars, dvars>>

SpecMap == InitMap /\ [][NextMap]_vars

-----------------------------------------------------------------------------
(* SpecMut: a populated PageMap whose PageInfo entries are changed through  *)
(* the references get_mut vends                                            *)

\* Most get_mut calls in one behaviour
MaxMutations == 2

MutMemTypes == {"Available", "HostKernelImage", "FirmwareReserved"}

MutMemMaps == {mm \in MemMaps : \A i \in 1..Len(mm) : mm[i].mem_type \in MutMemTypes}

InitMut ==
    /\ mem_map \in MutMemMaps
    /\ pages = <<>> /\ sparse_map = <<>>
    /\ mstate = "new" /\ mop = "new" /\ maddr = Unit /\ mres = Unit
    /\ PageIdle
    /\ TeeIdle
    /\ SbiIdle
    /\ RunIdle
    /\ LoopIdle /\ NoneDestroyed

\* How many get_mut calls the PageMap has seen
Mutations == IF mstate = "mutated" THEN mres.count ELSE 0

\* get_mut(addr), then update on the PageInfo it returned, if any; update(p)
\* gives the new PageInfo and the result
GetMutThen(name, addr, update(_)) ==
    /\ mstate \in {"populated", "mutated"}
    /\ Mutations < MaxMutations
    /\ LET r == get_mut(pages, sparse_map, addr)
           out == update(pages[r.val + 1])
       IN  /\ pages' = IF r.some THEN [pages EXCEPT ![r.val + 1] = out.page] ELSE pages
           /\ mres' = [ref |-> r, before |-> pages,
                       res |-> IF r.some THEN out.res ELSE Err("none"),
                       count |-> Mutations + 1]
    /\ mstate' = "mutated"
    /\ mop' = name
    /\ maddr' = addr
    /\ UNCHANGED <<mem_map, sparse_map>>

GetMutPushOwner ==
    \E addr \in QueryAddrs :
        LET update(p) == push_owner(p, host)
        IN  GetMutThen("get_mut_push_owner", addr, update)

GetMutPopOwner ==
    \E addr \in QueryAddrs :
        LET update(p) == pop_owner(p)
        IN  GetMutThen("get_mut_pop_owner", addr, update)

NextMut ==
    \/ PopulateFrom /\ UNCHANGED <<pvars, tvars, svars, rvars, lvars, dvars>>
    \/ Get /\ UNCHANGED <<pvars, tvars, svars, rvars, lvars, dvars>>
    \/ NumAfter /\ UNCHANGED <<pvars, tvars, svars, rvars, lvars, dvars>>
    \/ GetMutPushOwner /\ UNCHANGED <<pvars, tvars, svars, rvars, lvars, dvars>>
    \/ GetMutPopOwner /\ UNCHANGED <<pvars, tvars, svars, rvars, lvars, dvars>>

SpecMut == InitMut /\ [][NextMut]_vars

-----------------------------------------------------------------------------
(* SpecBuild: PageMap::build_from, which finds room for the PageInfo array  *)
(* in the memory map it is given                                           *)

\* PageSize::Size4k / size_of::<PageInfo>(): the PageInfo structs one frame holds
PageInfosPerFrame == 2

\* HwMemMap::reserve_region for a range that starts a region: the first
\* num_pages frames of the region become a Reserved region of the given type,
\* the rest of it stays what it was
reserve_region(mm, resv_type, base, num_pages) ==
    LET hits == {i \in 1..Len(mm) : mm[i].base = base /\ num_pages <= mm[i].size}
    IN  IF hits = {} \/ num_pages = 0 THEN Err("InvalidRegion")
        ELSE LET i == CHOOSE j \in hits : TRUE
                 taken == [base |-> base, size |-> num_pages, mem_type |-> resv_type]
                 rest == [base |-> base + num_pages, size |-> mm[i].size - num_pages,
                          mem_type |-> mm[i].mem_type]
             IN  Ok(SubSeq(mm, 1, i - 1)
                        \o (IF rest.size = 0 THEN <<taken>> ELSE <<taken, rest>>)
                        \o SubSeq(mm, i + 1, Len(mm)))

RECURSIVE total_pages_fold(_, _)
total_pages_fold(mm, i) == IF i = 0 THEN 0 ELSE total_pages_fold(mm, i - 1) + mm[i].size

\* round_up(total_pages * size_of::<PageInfo>()) / Size4k
page_map_pages_for(total_pages) ==
    (total_pages + PageInfosPerFrame - 1) \div PageInfosPerFrame

BuildPanic == [pages |-> <<>>, sparse_map |-> <<>>, panicked |-> TRUE, base |-> 0, num |-> 0]

\* Mutant: the range of the PageInfo array is not reserved in the memory map
build_from_unreserved(mm) ==
    LET page_map_pages == page_map_pages_for(total_pages_fold(mm, Len(mm)))
        fits == {i \in 1..Len(mm) :
                    mm[i].mem_type = "Available" /\ mm[i].size >= page_map_pages}
    IN  IF fits = {} THEN BuildPanic
        ELSE LET i == CHOOSE j \in fits : \A k \in fits : j <= k
                 pm == populate_from(mm)
             IN  [pages |-> pm.pages, sparse_map |-> pm.sparse_map,
                  panicked |-> pm.panicked, base |-> mm[i].base, num |-> page_map_pages]

build_from(mm) ==
    LET page_map_pages == page_map_pages_for(total_pages_fold(mm, Len(mm)))
        fits == {i \in 1..Len(mm) :
                    mm[i].mem_type = "Available" /\ mm[i].size >= page_map_pages}
    IN  IF fits = {} THEN BuildPanic
        ELSE LET i == CHOOSE j \in fits : \A k \in fits : j <= k
                 reserved == reserve_region(mm, "PageMap", mm[i].base, page_map_pages)
             IN  IF ~reserved.ok THEN BuildPanic
                 ELSE LET pm == populate_from(reserved.val)
                      IN  [pages |-> pm.pages, sparse_map |-> pm.sparse_map,
                           panicked |-> pm.panicked, base |-> mm[i].base,
                           num |-> page_map_pages]

BuildFrom ==
    /\ mstate = "new"
    /\ LET pm == build_from(mem_map)
       IN  /\ pages' = pm.pages
           /\ sparse_map' = pm.sparse_map
           /\ mstate' = IF pm.panicked THEN "panicked" ELSE "populated"
           /\ mres' = [base |-> pm.base, num |-> pm.num]
    /\ mop' = "build_from" /\ maddr' = Unit
    /\ UNCHANGED mem_map

NextBuild ==
    \/ BuildFrom /\ UNCHANGED <<pvars, tvars, svars, rvars, lvars, dvars>>
    \/ Get /\ UNCHANGED <<pvars, tvars, svars, rvars, lvars, dvars>>
    \/ NumAfter /\ UNCHANGED <<pvars, tvars, svars, rvars, lvars, dvars>>

SpecBuild == InitMut /\ [][NextBuild]_vars

-----------------------------------------------------------------------------
(* SpecSparse: SpecMap, started also from memory maps of many separate runs *)

\* Most separate runs of frames in a memory map
MaxRuns == 17

\* n one-frame regions three frames apart; when j > 0 a second region follows
\* the j-th one without a gap
SeparateRuns(n, j) ==
    LET len == IF j = 0 THEN n ELSE n + 1
        run(i) == [base |-> 3 * i - 2, size |-> 1, mem_type |-> "Available"]
    IN  [i \in 1..len |->
            IF j = 0 \/ i <= j THEN run(i)
            ELSE IF i = j + 1
                 THEN [base |-> 3 * j - 1, size |-> 1, mem_type |-> "FirmwareReserved"]
                 ELSE run(i - 1)]

SparseMemMaps == {SeparateRuns(n, j) : n \in 1..MaxRuns, j \in 0..MaxRuns} \cup MemMaps

InitSparse ==
    /\ mem_map \in SparseMemMaps
    /\ pages = <<>> /\ sparse_map = <<>>
    /\ mstate = "new" /\ mop = "new" /\ maddr = Unit /\ mres = Unit
    /\ PageIdle
    /\ TeeIdle
    /\ SbiIdle
    /\ RunIdle
    /\ LoopIdle /\ NoneDestroyed

SpecSparse == InitSparse /\ [][NextMap]_vars

-----------------------------------------------------------------------------
(* SBI errors and return values (sbi.rs)                                   *)

SBI_SUCCESS == 0
SBI_ERR_FAILED == -1
SBI_ERR_NOT_SUPPORTED == -2
SBI_ERR_INVALID_PARAM == -3
SBI_ERR_DENIED == -4
SBI_ERR_INVALID_ADDRESS == -5
SBI_ERR_ALREADY_AVAILABLE == -6
SBI_ERR_ALREADY_STARTED == -7
SBI_ERR_ALREADY_STOPPED == -8

\* Mutant: a code that names no known kind is read as InvalidParam
from_code_default_invalid_param(e) ==
    CASE e = SBI_ERR_INVALID_ADDRESS -> "InvalidAddress"
      [] e = SBI_ERR_NOT_SUPPORTED -> "NotSupported"
      [] e = SBI_ERR_FAILED -> "Failed"
      [] OTHER -> "InvalidParam"

\* Error::from_code
from_code(e) ==
    CASE e = SBI_ERR_INVALID_ADDRESS -> "InvalidAddress"
      [] e = SBI_ERR_INVALID_PARAM -> "InvalidParam"
      [] e = SBI_ERR_NOT_SUPPORTED -> "NotSupported"
      [] OTHER -> "Failed"

to_code(e) ==
    CASE e = "InvalidAddress" -> SBI_ERR_INVALID_ADDRESS
      [] e = "InvalidParam" -> SBI_ERR_INVALID_PARAM
      [] e = "Failed" -> SBI_ERR_FAILED
      [] e = "NotSupported" -> SBI_ERR_NOT_SUPPORTED
      [] e = "UnknownSbiExtension" -> SBI_ERR_INVALID_PARAM

SbiReturn(error_code, return_value) ==
    [error_code |-> error_code, return_value |-> return_value]

SbiReturn_success(return_value) == SbiReturn(SBI_SUCCESS, return_value)

SbiReturn_from_error(e) == SbiReturn(to_code(e), 0)

SbiReturn_from(result) ==
    IF result.ok THEN SbiReturn_success(result.val) ELSE SbiReturn_from_error(result.err)

-----------------------------------------------------------------------------
(* SBI messages and their register encoding (sbi.rs). A register file is a  *)
(* function from 0..7 (a0..a7) to the register's value; `as u64` / `as i64` *)
(* reinterpret the same 64 bits, and a register is modelled by its signed   *)
(* reading.                                                                *)

EXT_PUT_CHAR == 1
EXT_BASE == 16
EXT_HART_STATE == 4739917
EXT_RESET == 1397904212
EXT_TEE == 5522757

A0 == 0
A1 == 1
A2 == 2
A3 == 3
A4 == 4
A5 == 5
A6 == 6
A7 == 7

BaseFunctions ==
    <<"GetSpecificationVersion", "GetImplementationID", "GetImplementationVersion",
      "GetMachineVendorID", "GetMachineArchitectureID", "GetMachineImplementationID">>

BaseFunction_from_func_id(a6) ==
    IF a6 \in 0..5 THEN Ok(BaseFunctions[a6 + 1]) ELSE Err("InvalidParam")

StateFunctions == <<"HartStart", "HartStop", "HartStatus", "HartSuspend">>

StateFunction_from_func_id(a6) ==
    IF a6 \in 0..3 THEN Ok(StateFunctions[a6 + 1]) ELSE Err("InvalidParam")

\* enum ResetType, in declaration order (discriminants 0, 1, 2)
ResetTypes == <<"Shutdown", "ColdReset", "WarmReset">>
\* enum ResetReason, in declaration order (discriminants 0, 1)
ResetReasons == <<"NoReason", "SystemFailure">>

\* `value as u64` of a fieldless enum: the position of the variant in its declaration
discriminant(variants, v) == (CHOOSE i \in 1..Len(variants) : variants[i] = v) - 1

ResetType_from_reg(a0) ==
    CASE a0 = 0 -> Ok("Shutdown")
      [] a0 = 1 -> Ok("ColdReset")
      [] a0 = 2 -> Ok("WarmReset")
      [] OTHER -> Err("InvalidParam")

\* Mutant: the reason is read as the position of the variant (0, 1)
ResetReason_from_reg_by_position(a1) ==
    CASE a1 = 0 -> Ok("NoReason")
      [] a1 = 1 -> Ok("SystemFailure")
      [] OTHER -> Err("InvalidParam")

ResetReason_from_reg(a1) ==
    CASE a1 = 0 -> Ok("NoReason")
      [] a1 = 2 -> Ok("SystemFailure")
      [] OTHER -> Err("InvalidParam")

ResetFunction_Reset(reset_type, reason) == [reset_type |-> reset_type, reason |-> reason]

ResetFunction_from_regs(a6, a0, a1) ==
    IF a6 # 0 THEN Err("InvalidParam")
    ELSE LET reset_type == ResetType_from_reg(a0)
             reason == ResetReason_from_reg(a1)
         IN  IF ~reset_type.ok THEN Err(reset_type.err)
             ELSE IF ~reason.ok THEN Err(reason.err)
             ELSE Ok(ResetFunction_Reset(reset_type.val, reason.val))

ResetFunction_get_a0(r) == discriminant(ResetReasons, r.reason)

ResetFunction_get_a1(r) == discriminant(ResetTypes, r.reset_type)

\* Mutant: RemovePages takes gpa and remap_addr from each other's register
TeeFunction_from_regs_remove_swapped(args) ==
    CASE args[6] = 0 -> Ok([fn |-> "TvmCreate", donor |-> args[0]])
      [] args[6] = 1 -> Ok([fn |-> "TvmDestroy", guest_id |-> args[0]])
      [] args[6] = 2 -> Ok([fn |-> "AddPageTablePages", guest_id |-> args[0],
                            page_addr |-> args[1], num_pages |-> args[2]])
      [] args[6] = 3 -> Ok([fn |-> "AddPages", guest_id |-> args[0], page_addr |-> args[1],
                            page_type |-> args[2], num_pages |-> args[3], gpa |-> args[4],
                            measure_preserve |-> (args[5] = 0)])
      [] args[6] = 4 -> Ok([fn |-> "Finalize", guest_id |-> args[0]])
      [] args[6] = 5 -> Ok([fn |-> "Run", guest_id |-> args[0]])
      [] args[6] = 6 -> Ok([fn |-> "RemovePages", guest_id |-> args[0], gpa |-> args[2],
                            remap_addr |-> args[1], num_pages |-> args[3]])
      [] args[6] = 7 -> Ok([fn |-> "GetGuestMeasurement", guest_id |-> args[0],
                            measurement_version |-> args[1],
                            measurement_type |-> args[2], page_addr |-> args[3]])
      [] OTHER -> Err("InvalidParam")

\* TeeFunction::from_regs: args are the registers a0..a6
TeeFunction_from_regs(args) ==
    CASE args[6] = 0 -> Ok([fn |-> "TvmCreate", donor |-> args[0]])
      [] args[6] = 1 -> Ok([fn |-> "TvmDestroy", guest_id |-> args[0]])
      [] args[6] = 2 -> Ok([fn |-> "AddPageTablePages", guest_id |-> args[0],
                            page_addr |-> args[1], num_pages |-> args[2]])
      [] args[6] = 3 -> Ok([fn |-> "AddPages", guest_id |-> args[0], page_addr |-> args[1],
                            page_type |-> args[2], num_pages |-> args[3], gpa |-> args[4],
                            measure_preserve |-> (args[5] = 0)])
      [] args[6] = 4 -> Ok([fn |-> "Finalize", guest_id |-> args[0]])
      [] args[6] = 5 -> Ok([fn |-> "Run", guest_id |-> args[0]])
      [] args[6] = 6 -> Ok([fn |-> "RemovePages", guest_id |-> args[0], gpa |-> args[1],
                            remap_addr |-> args[2], num_pages |-> args[3]])
      [] args[6] = 7 -> Ok([fn |-> "GetGuestMeasurement", guest_id |-> args[0],
                            measurement_version |-> args[1],
                            measurement_type |-> args[2], page_addr |-> args[3]])
      [] OTHER -> Err("InvalidParam")

TeeFunction_a6(f) ==
    CASE f.fn = "TvmCreate" -> 0
      [] f.fn = "TvmDestroy" -> 1
      [] f.fn = "AddPageTablePages" -> 2
      [] f.fn = "AddPages" -> 3
      [] f.fn = "Finalize" -> 4
      [] f.fn = "Run" -> 5
      [] f.fn = "RemovePages" -> 6
      [] f.fn = "GetGuestMeasurement" -> 7

TeeFunction_a0(f) == IF f.fn = "TvmCreate" THEN f.donor ELSE f.guest_id

TeeFunction_a1(f) ==
    CASE f.fn = "AddPageTablePages" -> f.page_addr
      [] f.fn = "AddPages" -> f.page_addr
      [] f.fn = "RemovePages" -> f.gpa
      [] f.fn = "GetGuestMeasurement" -> f.measurement_version
      [] OTHER -> 0

TeeFunction_a2(f) ==
    CASE f.fn = "AddPageTablePages" -> f.num_pages
      [] f.fn = "AddPages" -> f.page_type
      [] f.fn = "RemovePages" -> f.remap_addr
      [] f.fn = "GetGuestMeasurement" -> f.measurement_type
      [] OTHER -> 0

TeeFunction_a3(f) ==
    CASE f.fn = "AddPages" -> f.num_pages
      [] f.fn = "RemovePages" -> f.num_pages
      [] f.fn = "GetGuestMeasurement" -> f.page_addr
      [] OTHER -> 0

TeeFunction_a4(f) == IF f.fn = "AddPages" THEN f.gpa ELSE 0

TeeFunction_a5(f) ==
    IF f.fn = "AddPages" THEN (IF f.measure_preserve THEN 1 ELSE 0) ELSE 0

TeeFunction_result(a0, a1) == IF a0 = 0 THEN Ok(a1) ELSE Err(from_code(a0))

\* enum SbiMessage
SbiMessage_Base(f) == [ext |-> "Base", base |-> f]
SbiMessage_PutChar(c) == [ext |-> "PutChar", c |-> c]
SbiMessage_HartState(f) == [ext |-> "HartState", state |-> f]
SbiMessage_Reset(r) == [ext |-> "Reset", reset |-> r]
SbiMessage_Tee(f) == [ext |-> "Tee", tee |-> f]

\* Result::map
Result_map(r, wrap(_)) == IF r.ok THEN Ok(wrap(r.val)) ELSE r

SbiMessage_from_regs(regs) ==
    CASE regs[A7] = EXT_PUT_CHAR -> Ok(SbiMessage_PutChar(regs[A0]))
      [] regs[A7] = EXT_BASE -> Result_map(BaseFunction_from_func_id(regs[A6]), SbiMessage_Base)
      [] regs[A7] = EXT_HART_STATE ->
            Result_map(StateFunction_from_func_id(regs[A6]), SbiMessage_HartState)
      [] regs[A7] = EXT_RESET ->
            Result_map(ResetFunction_from_regs(regs[A6], regs[A0], regs[A1]), SbiMessage_Reset)
      [] regs[A7] = EXT_TEE -> Result_map(TeeFunction_from_regs(regs), SbiMessage_Tee)
      [] OTHER -> Err("UnknownSbiExtension")

SbiMessage_a7(m) ==
    CASE m.ext = "Base" -> EXT_BASE
      [] m.ext = "PutChar" -> EXT_PUT_CHAR
      [] m.ext = "HartState" -> EXT_HART_STATE
      [] m.ext = "Reset" -> EXT_RESET
      [] m.ext = "Tee" -> EXT_TEE

SbiMessage_a6(m) == IF m.ext = "Tee" THEN TeeFunction_a6(m.tee) ELSE 0
SbiMessage_a5(m) == IF m.ext = "Tee" THEN TeeFunction_a5(m.tee) ELSE 0
SbiMessage_a4(m) == IF m.ext = "Tee" THEN TeeFunction_a4(m.tee) ELSE 0
SbiMessage_a3(m) == IF m.ext = "Tee" THEN TeeFunction_a3(m.tee) ELSE 0
SbiMessage_a2(m) == IF m.ext = "Tee" THEN TeeFunction_a2(m.tee) ELSE 0

SbiMessage_a1(m) ==
    CASE m.ext = "Reset" -> ResetFunction_get_a1(m.reset)
      [] m.ext = "Tee" -> TeeFunction_a1(m.tee)
      [] OTHER -> 0

SbiMessage_a0(m) ==
    CASE m.ext = "Reset" -> ResetFunction_get_a0(m.reset)
      [] m.ext = "PutChar" -> m.c
      [] m.ext = "Tee" -> TeeFunction_a0(m.tee)
      [] OTHER -> 0

SbiMessage_result(m, a0, a1) ==
    CASE m.ext = "Base" -> IF a0 = 0 THEN Ok(a1) ELSE Err("InvalidParam")
      [] m.ext = "HartState" -> Ok(a1)
      [] m.ext = "PutChar" -> Ok(0)
      [] m.ext = "Reset" -> Err("InvalidParam")
      [] m.ext = "Tee" -> TeeFunction_result(a0, a1)

\* ecall_send: the registers a caller loads from a message before the ecall
ecall_regs(m) ==
    [r \in 0..7 |->
        CASE r = A0 -> SbiMessage_a0(m)
          [] r = A1 -> SbiMessage_a1(m)
          [] r = A2 -> SbiMessage_a2(m)
          [] r = A3 -> SbiMessage_a3(m)
          [] r = A4 -> SbiMessage_a4(m)
          [] r = A5 -> SbiMessage_a5(m)
          [] r = A6 -> SbiMessage_a6(m)
          [] r = A7 -> SbiMessage_a7(m)]

-----------------------------------------------------------------------------
(* Physical frames and addresses seen by the TEE calls                     *)

PageSize4k == 4096
\* TvmCreate takes 5 contiguous 4 KiB pages, aligned to 16 KiB (4 frames)
TvmCreatePages == 5
TopLevelAlignPages == 4

\* Frames 0..TeeMaxPfn exist
TeeMaxPfn == 12
\* The one frame that the hypervisor kept for itself (never given to the host)
HypervisorPfn == 2 * TopLevelAlignPages - 1

TeeFrames == 0..TeeMaxPfn

\* AlignedPageAddr4k::new(PhysAddr::new(a)): the frame number, when a is 4 KiB-aligned
AlignedPageAddr4k_new(a) ==
    IF a % PageSize4k = 0 THEN Some(a \div PageSize4k) ELSE None

\* The frames pfn .. pfn + n - 1
FrameRange(pfn, n) == pfn..(pfn + n - 1)

\* All frames of the range exist and have `who` as their current owner
owned_by(ph, frames, who) ==
    \A f \in frames : f \in DOMAIN ph /\ owner(ph[f]) = Some(who)

\* push_owner(id) on every frame of the range
push_all(ph, frames, id) ==
    [f \in DOMAIN ph |-> IF f \in frames THEN push_owner(ph[f], id).page ELSE ph[f]]

\* pop_owner on every frame of the range
pop_all(ph, frames) ==
    [f \in DOMAIN ph |-> IF f \in frames THEN pop_owner(ph[f]).page ELSE ph[f]]

\* Dropping a guest's pages: pop_owners_while(top == id) on every frame
release_guest_pages(ph, id) ==
    [f \in DOMAIN ph |-> pop_owners_while(ph[f], {id}).page]

RECURSIVE release_all(_, _)
release_all(ph, ids) ==
    IF ids = {} THEN ph
    ELSE LET id == CHOOSE x \in ids : TRUE
         IN  release_all(release_guest_pages(ph, id), ids \ {id})

-----------------------------------------------------------------------------
(* GuestState and the guest registry (vm.rs)                               *)

\* Most entries the tracking pages given to a host can hold
GuestCapacity == 2
\* Largest raw guest id the model mints
MaxGuestId == 4

\* GuestState::Init(GuestRootBuilder): the builder's owner id, the frames in its
\* page-table pool and its mappings (guest frame -> host frame)
GuestState_Init(id, root, pt_pages, mapped) ==
    [tag |-> "Init", id |-> id, root |-> root, pt_pages |-> pt_pages,
     mapped |-> mapped, guests |-> None, has_run |-> FALSE]

\* Mutant: every Vm starts with an empty registry of its own
Vm_new_with_registry(grb) ==
    [tag |-> "Running", id |-> grb.id, root |-> grb.root, pt_pages |-> grb.pt_pages,
     mapped |-> grb.mapped, guests |-> [some |-> TRUE, val |-> <<>>], has_run |-> FALSE]

\* Vm::new(vm_pages): no guest registry, not run yet
Vm_new(grb) ==
    [tag |-> "Running", id |-> grb.id, root |-> grb.root, pt_pages |-> grb.pt_pages,
     mapped |-> grb.mapped, guests |-> None, has_run |-> FALSE]

GuestState_Temp ==
    [tag |-> "Temp", id |-> 0, root |-> 0, pt_pages |-> {}, mapped |-> {},
     guests |-> None, has_run |-> FALSE]

\* unreachable!(): the hypervisor panics. The accessor yields no builder and no
\* Vm, and page_owner_id yields a value that is no PageOwnerId
Panic == [some |-> FALSE, panic |-> TRUE]
PanicId == -1

page_owner_id(g) == IF g.tag = "Temp" THEN PanicId ELSE g.id

\* Mutant: hands out the builder whatever the state variant is
init_mut_any_state(g) ==
    CASE g.tag = "Init" -> Some(g)
      [] g.tag = "Running" -> Some(g)
      [] g.tag = "Temp" -> Panic

init_mut(g) ==
    CASE g.tag = "Init" -> Some(g)
      [] g.tag = "Running" -> None
      [] g.tag = "Temp" -> Panic

\* Mutant: hands out the Vm whatever the state variant is
vm_mut_any_state(g) ==
    CASE g.tag = "Init" -> Some(g)
      [] g.tag = "Running" -> Some(g)
      [] g.tag = "Temp" -> Panic

vm_mut(g) ==
    CASE g.tag = "Init" -> None
      [] g.tag = "Running" -> Some(g)
      [] g.tag = "Temp" -> Panic

\* Mutant: the entry is pushed without reserving room for it
Guests_add_unreserved(inner, capacity, guest_state) == Ok(Append(inner, guest_state))

\* Mutant: a full registry gives the slot of its last entry to the new one
Guests_add_full_replaces_last(inner, capacity, guest_state) ==
    IF Len(inner) >= capacity THEN Ok([inner EXCEPT ![Len(inner)] = guest_state])
    ELSE Ok(Append(inner, guest_state))

\* Guests::add: try_reserve(1) fails when the tracking pages are full
Guests_add(inner, capacity, guest_state) ==
    IF Len(inner) >= capacity THEN Err("InvalidParam")
    ELSE Ok(Append(inner, guest_state))

\* Mutant: any valid id finds the first entry of the registry
get_guest_index_first_entry(inner, guest_id) ==
    LET pid == PageOwnerId_new(guest_id)
    IN  IF ~pid.some THEN Err("InvalidParam")
        ELSE IF Len(inner) = 0 THEN Err("InvalidParam") ELSE Ok(1)

get_guest_index(inner, guest_id) ==
    LET pid == PageOwnerId_new(guest_id)
    IN  IF ~pid.some THEN Err("InvalidParam")
        ELSE LET hits == {i \in 1..Len(inner) : page_owner_id(inner[i]) = pid.val}
             IN  IF hits = {} THEN Err("InvalidParam")
                 ELSE Ok(CHOOSE i \in hits : \A j \in hits : i <= j)

\* Mutant: retain keeps the named entry and drops the others
Guests_remove_keeps_named(inner, guest_id) ==
    LET pid == PageOwnerId_new(guest_id)
    IN  IF ~pid.some THEN Err("InvalidParam")
        ELSE Ok(SelectSeq(inner, LAMBDA g : page_owner_id(g) = pid.val))

\* Guests::remove: retain the entries whose id differs
Guests_remove(inner, guest_id) ==
    LET pid == PageOwnerId_new(guest_id)
    IN  IF ~pid.some THEN Err("InvalidParam")
        ELSE Ok(SelectSeq(inner, LAMBDA g : page_owner_id(g) # pid.val))

\* Guests::guest_mut: the index of the entry, to be updated in place
guest_mut(inner, guest_id) ==
    LET gi == get_guest_index(inner, guest_id)
    IN  IF ~gi.ok THEN gi
        ELSE IF gi.val <= Len(inner) THEN Ok(gi.val) ELSE Err("InvalidParam")

initializing_guest_mut(inner, guest_id) ==
    LET g == guest_mut(inner, guest_id)
    IN  IF ~g.ok THEN g
        ELSE IF init_mut(inner[g.val]).some THEN g ELSE Err("InvalidParam")

running_guest_mut(inner, guest_id) ==
    LET g == guest_mut(inner, guest_id)
    IN  IF ~g.ok THEN g
        ELSE IF vm_mut(inner[g.val]).some THEN g ELSE Err("InvalidParam")

-----------------------------------------------------------------------------
(* VmPages adapter: what the control plane asks of the page tables         *)

\* Every push_owner(id) on the range would succeed
can_push_all(ph, frames, id) ==
    \A f \in frames : f \in DOMAIN ph /\ push_owner(ph[f], id).res.ok

\* Five contiguous 16 KiB-aligned pages owned by the caller go to a fresh guest id
create_guest_root_builder(ph, nid, caller, from_pfn) ==
    LET donor == FrameRange(from_pfn, TvmCreatePages)
    IN  IF from_pfn % TopLevelAlignPages # 0 THEN Err("UnalignedVmPages")
        ELSE IF ~owned_by(ph, donor, caller) \/ ~can_push_all(ph, donor, nid)
        THEN Err("PageNotOwned")
        ELSE Ok([phys |-> push_all(ph, donor, nid),
                 builder |-> GuestState_Init(nid, from_pfn, {}, {}),
                 next_id |-> nid + 1])

\* n 4 KiB pages owned by the caller go to the guest's page-table pool
add_pte_pages_builder(ph, caller, from_pfn, n, grb) ==
    LET frames == FrameRange(from_pfn, n)
    IN  IF ~owned_by(ph, frames, caller) \/ ~can_push_all(ph, frames, grb.id)
        THEN Err("PageNotOwned")
        ELSE Ok([phys |-> push_all(ph, frames, grb.id),
                 builder |-> [grb EXCEPT !.pt_pages = @ \cup frames]])

\* n 4 KiB pages owned by the caller are given to the guest and mapped at to_pfn..
add_4k_pages_builder(ph, caller, from_pfn, n, grb, to_pfn, measure_preserve) ==
    LET frames == FrameRange(from_pfn, n)
        taken == {m[1] : m \in grb.mapped}
    IN  IF ~owned_by(ph, frames, caller) \/ ~can_push_all(ph, frames, grb.id)
        THEN Err("PageNotOwned")
        ELSE IF \E i \in 0..(n - 1) : (to_pfn + i) \in taken
        THEN Err("MappingExists")
        ELSE Ok([phys |-> push_all(ph, frames, grb.id),
                 builder |-> [grb EXCEPT !.mapped =
                                 @ \cup {<<to_pfn + i, from_pfn + i>> : i \in 0..(n - 1)}]])

\* The guest's mappings at gpa_pfn.. are removed and their frames popped back
remove_4k_pages(ph, vm, gpa_pfn, n) ==
    LET gone == {m \in vm.mapped : m[1] \in FrameRange(gpa_pfn, n)}
    IN  IF Cardinality(gone) # n THEN Err("PageNotMapped")
        ELSE Ok([phys |-> pop_all(ph, {m[2] : m \in gone}),
                 vm |-> [vm EXCEPT !.mapped = @ \ gone],
                 val |-> n])

\* Temporary access to a page of the caller, for the measurement to be written
execute_with_guest_owned_page(ph, caller, gpa) ==
    LET a == AlignedPageAddr4k_new(gpa)
    IN  IF a.some /\ owned_by(ph, {a.val}, caller) THEN Ok(Unit) ELSE Err("PageNotOwned")

-----------------------------------------------------------------------------
(* TEE handlers of a Vm (vm.rs). vm is the calling Vm: its `guests` field   *)
(* and the PageOwnerId of its vm_pages. Each handler returns the caller's  *)
(* registry, the frames, the id counter and the sbi::Result.               *)

Outcome(gs, ph, nid, result) ==
    [guests |-> gs, phys |-> ph, next_id |-> nid, res |-> result]

\* Mutant: the pages pushed for the builder stay with it when the registry is full
add_guest_full_keeps_pages(vm, ph, nid, donor_pages_addr) ==
    IF ~vm.guests.some THEN Outcome(vm.guests, ph, nid, Err("InvalidParam"))
    ELSE LET from_page_addr == AlignedPageAddr4k_new(donor_pages_addr)
         IN  IF ~from_page_addr.some
             THEN Outcome(vm.guests, ph, nid, Err("InvalidAddress"))
             ELSE LET b == create_guest_root_builder(ph, nid, vm.id, from_page_addr.val)
                  IN  IF ~b.ok THEN Outcome(vm.guests, ph, nid, Err("InvalidParam"))
                      ELSE LET added == Guests_add(vm.guests.val, vm.capacity, b.val.builder)
                           IN  IF ~added.ok
                               THEN Outcome(vm.guests, b.val.phys, b.val.next_id,
                                            Err("InvalidParam"))
                               ELSE Outcome(Some(added.val), b.val.phys, b.val.next_id,
                                            Ok(b.val.builder.id))

add_guest(vm, ph, nid, donor_pages_addr) ==
    IF ~vm.guests.some THEN Outcome(vm.guests, ph, nid, Err("InvalidParam"))
    ELSE LET from_page_addr == AlignedPageAddr4k_new(donor_pages_addr)
         IN  IF ~from_page_addr.some
             THEN Outcome(vm.guests, ph, nid, Err("InvalidAddress"))
             ELSE LET b == create_guest_root_builder(ph, nid, vm.id, from_page_addr.val)
                  IN  IF ~b.ok THEN Outcome(vm.guests, ph, nid, Err("InvalidParam"))
                      ELSE LET added == Guests_add(vm.guests.val, vm.capacity, b.val.builder)
                           IN  IF ~added.ok
                               THEN \* the GuestState is dropped with its pages
                                    Outcome(vm.guests,
                                            release_guest_pages(b.val.phys, b.val.builder.id),
                                            b.val.next_id, Err("InvalidParam"))
                               ELSE Outcome(Some(added.val), b.val.phys, b.val.next_id,
                                            Ok(b.val.builder.id))

\* Mutant: a Vm without a registry has nothing to remove and reports success
destroy_guest_without_registry_ok(vm, ph, nid, guest_id) ==
    IF ~vm.guests.some THEN Outcome(vm.guests, ph, nid, Ok(0))
    ELSE LET kept == Guests_remove(vm.guests.val, guest_id)
         IN  IF ~kept.ok THEN Outcome(vm.guests, ph, nid, Err("InvalidParam"))
             ELSE LET dropped == {vm.guests.val[i].id : i \in 1..Len(vm.guests.val)}
                                    \ {kept.val[i].id : i \in 1..Len(kept.val)}
                  IN  Outcome(Some(kept.val), release_all(ph, dropped), nid, Ok(0))

\* Mutant: the call answers success and the registry keeps the entry
destroy_guest_keeps_entry(vm, ph, nid, guest_id) ==
    IF ~vm.guests.some THEN Outcome(vm.guests, ph, nid, Err("InvalidParam"))
    ELSE IF ~PageOwnerId_new(guest_id).some
    THEN Outcome(vm.guests, ph, nid, Err("InvalidParam"))
    ELSE Outcome(vm.guests, ph, nid, Ok(0))

destroy_guest(vm, ph, nid, guest_id) ==
    IF ~vm.guests.some THEN Outcome(vm.guests, ph, nid, Err("InvalidParam"))
    ELSE LET kept == Guests_remove(vm.guests.val, guest_id)
         IN  IF ~kept.ok THEN Outcome(vm.guests, ph, nid, Err("InvalidParam"))
             ELSE LET dropped == {vm.guests.val[i].id : i \in 1..Len(vm.guests.val)}
                                    \ {kept.val[i].id : i \in 1..Len(kept.val)}
                  IN  Outcome(Some(kept.val), release_all(ph, dropped), nid, Ok(0))

\* Mutant: the closure forgets the second swap and leaves the placeholder
finalize_in_place_leaves_temp(g) ==
    LET s1 == [slot |-> GuestState_Temp, temp |-> g]
    IN  s1.slot

\* Mutant: the closure puts back what it took out, unconverted
finalize_in_place_keeps_builder(g) ==
    LET s1 == [slot |-> GuestState_Temp, temp |-> g]
        s2 == [slot |-> s1.temp, running |-> s1.slot]
    IN  s2.slot

\* Mutant: a guest that is Running already gets its Vm set up anew
finalize_in_place_resets_running(g) ==
    IF g.tag = "Init" THEN Vm_new(g) ELSE [g EXCEPT !.has_run = FALSE]

\* The closure of guest_finalize: swap Temp in, convert Init to Running, swap back
finalize_in_place(g) ==
    LET s1 == [slot |-> GuestState_Temp, temp |-> g]
        running == IF s1.temp.tag = "Init" THEN Vm_new(s1.temp) ELSE s1.temp
        s2 == [slot |-> running, running |-> s1.slot]
    IN  s2.slot

guest_finalize(vm, ph, nid, guest_id) ==
    IF ~vm.guests.some THEN Outcome(vm.guests, ph, nid, Err("InvalidParam"))
    ELSE LET g == guest_mut(vm.guests.val, guest_id)
         IN  IF ~g.ok THEN Outcome(vm.guests, ph, nid, Err(g.err))
             ELSE Outcome(Some([vm.guests.val EXCEPT ![g.val] = finalize_in_place(@)]),
                          ph, nid, Ok(0))

\* Vm::run as seen by the caller: the guest has run and has trapped back
Vm_run(v) == [v EXCEPT !.has_run = TRUE]

guest_run(vm, ph, nid, guest_id) ==
    IF ~vm.guests.some THEN Outcome(vm.guests, ph, nid, Err("InvalidParam"))
    ELSE LET g == running_guest_mut(vm.guests.val, guest_id)
         IN  IF ~g.ok THEN Outcome(vm.guests, ph, nid, Err(g.err))
             ELSE Outcome(Some([vm.guests.val EXCEPT ![g.val] = Vm_run(@)]), ph, nid, Ok(0))

guest_add_page_table_pages(vm, ph, nid, guest_id, from_addr, num_pages) ==
    LET from_page_addr == AlignedPageAddr4k_new(from_addr)
    IN  IF ~from_page_addr.some THEN Outcome(vm.guests, ph, nid, Err("InvalidAddress"))
        ELSE IF ~vm.guests.some THEN Outcome(vm.guests, ph, nid, Err("InvalidParam"))
        ELSE LET g == initializing_guest_mut(vm.guests.val, guest_id)
             IN  IF ~g.ok THEN Outcome(vm.guests, ph, nid, Err(g.err))
                 ELSE LET r == add_pte_pages_builder(ph, vm.id, from_page_addr.val,
                                                     num_pages, vm.guests.val[g.val])
                      IN  IF ~r.ok THEN Outcome(vm.guests, ph, nid, Err("InvalidAddress"))
                          ELSE Outcome(Some([vm.guests.val EXCEPT ![g.val] = r.val.builder]),
                                       r.val.phys, nid, Ok(0))

guest_rm_pages(vm, ph, nid, guest_id, gpa, num_pages) ==
    LET from_page_addr == AlignedPageAddr4k_new(gpa)
    IN  IF ~from_page_addr.some THEN Outcome(vm.guests, ph, nid, Err("InvalidAddress"))
        ELSE IF ~vm.guests.some THEN Outcome(vm.guests, ph, nid, Err("InvalidParam"))
        ELSE LET g == running_guest_mut(vm.guests.val, guest_id)
             IN  IF ~g.ok THEN Outcome(vm.guests, ph, nid, Err(g.err))
                 ELSE LET r == remove_4k_pages(ph, vm.guests.val[g.val],
                                               from_page_addr.val, num_pages)
                      IN  IF ~r.ok THEN Outcome(vm.guests, ph, nid, Err("InvalidAddress"))
                          ELSE Outcome(Some([vm.guests.val EXCEPT ![g.val] = r.val.vm]),
                                       r.val.phys, nid, Ok(r.val.val))

\* Mutant: the page type is looked at only after the addresses were converted
guest_add_pages_type_checked_late(vm, ph, nid, guest_id, from_addr, page_type, num_pages, to_addr, measure_preserve) ==
    LET from_page_addr == AlignedPageAddr4k_new(from_addr)
        to_page_addr == AlignedPageAddr4k_new(to_addr)
    IN  IF ~from_page_addr.some THEN Outcome(vm.guests, ph, nid, Err("InvalidAddress"))
        ELSE IF ~to_page_addr.some THEN Outcome(vm.guests, ph, nid, Err("InvalidAddress"))
        ELSE IF page_type > 3 THEN Outcome(vm.guests, ph, nid, Err("InvalidParam"))
        ELSE IF ~vm.guests.some THEN Outcome(vm.guests, ph, nid, Err("InvalidParam"))
        ELSE LET g == initializing_guest_mut(vm.guests.val, guest_id)
             IN  IF ~g.ok THEN Outcome(vm.guests, ph, nid, Err(g.err))
                 ELSE LET r == add_4k_pages_builder(ph, vm.id, from_page_addr.val,
                                   num_pages, vm.guests.val[g.val], to_page_addr.val,
                                   measure_preserve)
                      IN  IF ~r.ok
                          THEN Outcome(vm.guests, ph, nid, Err("InvalidParam"))
                          ELSE Outcome(
                                   Some([vm.guests.val EXCEPT ![g.val] = r.val.builder]),
                                   r.val.phys, nid, Ok(num_pages))

guest_add_pages(vm, ph, nid, guest_id, from_addr, page_type, num_pages, to_addr, measure_preserve) ==
    IF page_type > 3 THEN Outcome(vm.guests, ph, nid, Err("InvalidParam"))
    ELSE LET from_page_addr == AlignedPageAddr4k_new(from_addr)
             to_page_addr == AlignedPageAddr4k_new(to_addr)
         IN  IF ~from_page_addr.some THEN Outcome(vm.guests, ph, nid, Err("InvalidAddress"))
             ELSE IF ~to_page_addr.some THEN Outcome(vm.guests, ph, nid, Err("InvalidAddress"))
             ELSE IF ~vm.guests.some THEN Outcome(vm.guests, ph, nid, Err("InvalidParam"))
             ELSE LET g == initializing_guest_mut(vm.guests.val, guest_id)
                  IN  IF ~g.ok THEN Outcome(vm.guests, ph, nid, Err(g.err))
                      ELSE LET r == add_4k_pages_builder(ph, vm.id, from_page_addr.val,
                                        num_pages, vm.guests.val[g.val], to_page_addr.val,
                                        measure_preserve)
                           IN  IF ~r.ok
                               THEN Outcome(vm.guests, ph, nid, Err("InvalidParam"))
                               ELSE Outcome(
                                        Some([vm.guests.val EXCEPT ![g.val] = r.val.builder]),
                                        r.val.phys, nid, Ok(num_pages))

\* Mutant: any measurement version is served
guest_get_measurement_any_version(vm, ph, nid, guest_id, measurement_version, measurement_type, page_addr) ==
    IF measurement_type # 1 \/ ~AlignedPageAddr4k_new(page_addr).some
    THEN Outcome(vm.guests, ph, nid, Err("InvalidParam"))
    ELSE IF ~vm.guests.some THEN Outcome(vm.guests, ph, nid, Err("InvalidParam"))
    ELSE LET gi == get_guest_index(vm.guests.val, guest_id)
         IN  IF ~gi.ok THEN Outcome(vm.guests, ph, nid, Err(gi.err))
             ELSE IF ~execute_with_guest_owned_page(ph, vm.id, page_addr).ok
             THEN Outcome(vm.guests, ph, nid, Err("InvalidAddress"))
             ELSE Outcome(vm.guests, ph, nid, Ok(0))

guest_get_measurement(vm, ph, nid, guest_id, measurement_version, measurement_type, page_addr) ==
    IF measurement_version # 1 \/ measurement_type # 1
          \/ ~AlignedPageAddr4k_new(page_addr).some
    THEN Outcome(vm.guests, ph, nid, Err("InvalidParam"))
    ELSE IF ~vm.guests.some THEN Outcome(vm.guests, ph, nid, Err("InvalidParam"))
    ELSE LET gi == get_guest_index(vm.guests.val, guest_id)
         IN  IF ~gi.ok THEN Outcome(vm.guests, ph, nid, Err(gi.err))
             ELSE IF ~execute_with_guest_owned_page(ph, vm.id, page_addr).ok
             THEN Outcome(vm.guests, ph, nid, Err("InvalidAddress"))
             ELSE Outcome(vm.guests, ph, nid, Ok(0))

-----------------------------------------------------------------------------
(* SpecTee: the host VM issues TEE calls                                   *)

\* Most pages one call names
MaxNumPages == 1

DonorAddrs == {0, TopLevelAlignPages * PageSize4k, 2 * TopLevelAlignPages * PageSize4k,
               PageSize4k, 1}
PageAddrArgs == {5 * PageSize4k, 5 * PageSize4k + 1}
GpaArgs == {0, 1}
PageTypeArgs == {0, 3, 4}
NumPagesArgs == 1..MaxNumPages
GuestIdArgs == 1..MaxGuestId
MeasurementArgs == {1, 2}
\* guest_add_pages hands measure_preserve to the adapter without reading it
MeasurePreserveArgs == {FALSE}

\* Nothing to observe: no TEE call is being returned from
NoCall == [fn |-> "none"]
NoReturn == [error_code |-> 0, return_value |-> 0]
NoBefore == [guests |-> None, phys |-> <<>>]

\* The Vm whose handle_tee_msg runs: its guests field and the owner id of its pages
CallerVm == [guests |-> guests, capacity |-> guest_slots, id |-> self_id]

\* The host Vm: Host::new gives it guest tracking pages
HostVmNew ==
    /\ self_id = host
    /\ guests = Some(<<>>)
    /\ guest_slots \in 1..GuestCapacity
    /\ phys = [f \in TeeFrames |->
                  IF f = HypervisorPfn THEN Owned(<<hypervisor>>)
                  ELSE Owned(<<hypervisor, host>>)]
    /\ next_id = 2
    /\ tee_call = NoCall
    /\ tee_ret = NoReturn
    /\ tee_before = NoBefore
    /\ finalized = {}
    /\ hart = "vm"

InitTee == HostVmNew /\ PageIdle /\ MapIdle /\ SbiIdle /\ RunIdle /\ LoopIdle /\ NoneDestroyed

\* A guest Vm as Vm::new leaves it at Finalize (no guests field), entered by Run:
\* it owns its five donor pages above the host
GuestVmNew ==
    /\ self_id \in 2..MaxGuestId
    /\ guests = None
    /\ guest_slots = 0
    /\ phys = [f \in TeeFrames |->
                  IF f = HypervisorPfn THEN Owned(<<hypervisor>>)
                  ELSE IF f \in FrameRange(0, TvmCreatePages)
                  THEN Owned(<<hypervisor, host, self_id>>)
                  ELSE Owned(<<hypervisor, host>>)]
    /\ next_id = self_id + 1
    /\ tee_call = NoCall
    /\ tee_ret = NoReturn
    /\ tee_before = NoBefore
    /\ finalized = {}
    /\ hart = "vm"

InitGuest == GuestVmNew /\ PageIdle /\ MapIdle /\ SbiIdle /\ RunIdle /\ LoopIdle /\ NoneDestroyed

\* Mutant: a handler of the Vm starts while guest_run still borrows the Vm
Dispatch_while_guest_runs(call, out) ==
    /\ hart \in {"vm", "guest"}
    /\ hart' = "trap"
    /\ tee_call' = call
    /\ tee_ret' = SbiReturn_from(out.res)
    /\ tee_before' = [guests |-> guests, phys |-> phys]
    /\ guests' = out.guests
    /\ guest_slots' = guest_slots
    /\ self_id' = self_id
    /\ phys' = out.phys
    /\ next_id' = out.next_id
    /\ finalized' = IF call.fn = "Finalize" /\ out.res.ok
                    THEN finalized \cup {call.guest_id} ELSE finalized

\* handle_tee_msg, entered by an ecall of the calling VM: the handler's outcome
\* becomes the Vm's state and the SbiReturn
Dispatch(call, out) ==
    /\ hart = "vm"
    /\ hart' = "trap"
    /\ tee_call' = call
    /\ tee_ret' = SbiReturn_from(out.res)
    /\ tee_before' = [guests |-> guests, phys |-> phys]
    /\ guests' = out.guests
    /\ guest_slots' = guest_slots
    /\ self_id' = self_id
    /\ phys' = out.phys
    /\ next_id' = out.next_id
    /\ finalized' = IF call.fn = "Finalize" /\ out.res.ok
                    THEN finalized \cup {call.guest_id} ELSE finalized

TvmCreate ==
    /\ next_id <= MaxGuestId
    /\ \E a \in DonorAddrs :
        Dispatch([fn |-> "TvmCreate", donor |-> a], add_guest(CallerVm, phys, next_id, a))

TvmDestroy ==
    \E k \in GuestIdArgs :
        Dispatch([fn |-> "TvmDestroy", guest_id |-> k],
                 destroy_guest(CallerVm, phys, next_id, k))

AddPageTablePages ==
    \E k \in GuestIdArgs, a \in PageAddrArgs, n \in NumPagesArgs :
        Dispatch([fn |-> "AddPageTablePages", guest_id |-> k, page_addr |-> a,
                  num_pages |-> n],
                 guest_add_page_table_pages(CallerVm, phys, next_id, k, a, n))

AddPages ==
    \E k \in GuestIdArgs, a \in PageAddrArgs, t \in PageTypeArgs, n \in NumPagesArgs,
       gpa \in GpaArgs, mp \in MeasurePreserveArgs :
        Dispatch([fn |-> "AddPages", guest_id |-> k, page_addr |-> a, page_type |-> t,
                  num_pages |-> n, gpa |-> gpa, measure_preserve |-> mp],
                 guest_add_pages(CallerVm, phys, next_id, k, a, t, n, gpa, mp))

Finalize ==
    \E k \in GuestIdArgs :
        Dispatch([fn |-> "Finalize", guest_id |-> k],
                 guest_finalize(CallerVm, phys, next_id, k))

Run ==
    \E k \in GuestIdArgs :
        Dispatch([fn |-> "Run", guest_id |-> k], guest_run(CallerVm, phys, next_id, k))

RemovePages ==
    \E k \in GuestIdArgs, gpa \in GpaArgs, n \in NumPagesArgs :
        Dispatch([fn |-> "RemovePages", guest_id |-> k, gpa |-> gpa, remap_addr |-> 0,
                  num_pages |-> n],
                 guest_rm_pages(CallerVm, phys, next_id, k, gpa, n))

GetGuestMeasurement ==
    \E k \in GuestIdArgs, v \in MeasurementArgs, t \in MeasurementArgs,
       a \in PageAddrArgs :
        Dispatch([fn |-> "GetGuestMeasurement", guest_id |-> k,
                  measurement_version |-> v, measurement_type |-> t, page_addr |-> a],
                 guest_get_measurement(CallerVm, phys, next_id, k, v, t, a))

\* The calling VM resumes after the ecall (sepc + 4) and consumes A0/A1
Resume ==
    /\ hart = "trap"
    /\ hart' = "vm"
    /\ tee_call' = NoCall
    /\ tee_ret' = NoReturn
    /\ tee_before' = NoBefore
    /\ UNCHANGED <<guests, guest_slots, phys, next_id, finalized, self_id>>

NextTee ==
    \/ TvmCreate /\ UNCHANGED <<pvars, mvars, svars, rvars, lvars, dvars>>
    \/ TvmDestroy /\ UNCHANGED <<pvars, mvars, svars, rvars, lvars, dvars>>
    \/ AddPageTablePages /\ UNCHANGED <<pvars, mvars, svars, rvars, lvars, dvars>>
    \/ AddPages /\ UNCHANGED <<pvars, mvars, svars, rvars, lvars, dvars>>
    \/ Finalize /\ UNCHANGED <<pvars, mvars, svars, rvars, lvars, dvars>>
    \/ Run /\ UNCHANGED <<pvars, mvars, svars, rvars, lvars, dvars>>
    \/ RemovePages /\ UNCHANGED <<pvars, mvars, svars, rvars, lvars, dvars>>
    \/ GetGuestMeasurement /\ UNCHANGED <<pvars, mvars, svars, rvars, lvars, dvars>>
    \/ Resume /\ UNCHANGED <<pvars, mvars, svars, rvars, lvars, dvars>>

SpecTee == InitTee /\ [][NextTee]_vars

\* The SbiReturn the host reads: a successful TvmDestroy marks its guest id
\* destroyed, a successful TvmCreate takes the id it returns out again
TrackDestroyed ==
    destroyed' =
        IF tee_call'.fn = "TvmDestroy" /\ tee_ret'.error_code = SBI_SUCCESS
        THEN destroyed \cup {tee_call'.guest_id}
        ELSE IF tee_call'.fn = "TvmCreate" /\ tee_ret'.error_code = SBI_SUCCESS
        THEN destroyed \ {tee_ret'.return_value}
        ELSE destroyed

\* The TEE calls of the host, with the destroyed ids followed
NextDestroy ==
    \/ TvmCreate /\ TrackDestroyed /\ UNCHANGED <<pvars, mvars, svars, rvars, lvars>>
    \/ TvmDestroy /\ TrackDestroyed /\ UNCHANGED <<pvars, mvars, svars, rvars, lvars>>
    \/ AddPageTablePages /\ TrackDestroyed /\ UNCHANGED <<pvars, mvars, svars, rvars, lvars>>
    \/ AddPages /\ TrackDestroyed /\ UNCHANGED <<pvars, mvars, svars, rvars, lvars>>
    \/ Finalize /\ TrackDestroyed /\ UNCHANGED <<pvars, mvars, svars, rvars, lvars>>
    \/ Run /\ TrackDestroyed /\ UNCHANGED <<pvars, mvars, svars, rvars, lvars>>
    \/ RemovePages /\ TrackDestroyed /\ UNCHANGED <<pvars, mvars, svars, rvars, lvars>>
    \/ GetGuestMeasurement /\ TrackDestroyed /\ UNCHANGED <<pvars, mvars, svars, rvars, lvars>>
    \/ Resume /\ UNCHANGED <<pvars, mvars, svars, rvars, lvars, dvars>>

SpecDestroy == InitTee /\ [][NextDestroy]_vars

\* The TEE calls of a guest that has no guests field
SpecGuest == InitGuest /\ [][NextTee]_vars

-----------------------------------------------------------------------------
(* SpecSbi: a VM loads registers and executes ecall; Vm::run handles the    *)
(* trap with handle_ecall and advances sepc; the caller reads the return   *)

\* Ecalls of one VM the model follows
MaxEcalls == 2
\* Largest raw value a caller puts into a0 and a1
MaxRawArg == 3
\* Largest function id a caller puts into a6
MaxFuncId == 8

\* handle_tee_msg: the handler each TeeFunction variant is routed to
handle_tee_msg(vm, ph, nid, f) ==
    CASE f.fn = "TvmCreate" -> add_guest(vm, ph, nid, f.donor)
      [] f.fn = "TvmDestroy" -> destroy_guest(vm, ph, nid, f.guest_id)
      [] f.fn = "AddPageTablePages" ->
            guest_add_page_table_pages(vm, ph, nid, f.guest_id, f.page_addr, f.num_pages)
      [] f.fn = "AddPages" ->
            guest_add_pages(vm, ph, nid, f.guest_id, f.page_addr, f.page_type, f.num_pages,
                            f.gpa, f.measure_preserve)
      [] f.fn = "Finalize" -> guest_finalize(vm, ph, nid, f.guest_id)
      [] f.fn = "Run" -> guest_run(vm, ph, nid, f.guest_id)
      [] f.fn = "RemovePages" -> guest_rm_pages(vm, ph, nid, f.guest_id, f.gpa, f.num_pages)
      [] f.fn = "GetGuestMeasurement" ->
            guest_get_measurement(vm, ph, nid, f.guest_id, f.measurement_version,
                                  f.measurement_type, f.page_addr)

\* The closure of handle_ecall: Ok(Some(SbiReturn)), Ok(None) or Err(error); a
\* Reset powers the machine off and yields nothing
handle_ecall_result(decoded, vm, ph, nid) ==
    IF ~decoded.ok THEN [res |-> Err(decoded.err), poweroff |-> FALSE]
    ELSE CASE decoded.val.ext = "PutChar" -> [res |-> Ok(None), poweroff |-> FALSE]
           [] decoded.val.ext = "Reset" -> [res |-> Ok(None), poweroff |-> TRUE]
           [] decoded.val.ext = "Base" -> [res |-> Err("NotSupported"), poweroff |-> FALSE]
           [] decoded.val.ext = "HartState" ->
                 [res |-> Err("NotSupported"), poweroff |-> FALSE]
           [] decoded.val.ext = "Tee" ->
                 [res |-> Ok(Some(SbiReturn_from(
                              handle_tee_msg(vm, ph, nid, decoded.val.tee).res))),
                  poweroff |-> FALSE]

\* The match at the end of handle_ecall: which registers are written
handle_ecall_regs(regs, result) ==
    IF result.ok
    THEN IF result.val.some
         THEN [regs EXCEPT ![A0] = result.val.val.error_code,
                           ![A1] = result.val.val.return_value]
         ELSE regs
    ELSE [regs EXCEPT ![A0] = SbiReturn_from_error(result.err).error_code]

\* TeeFunction values a caller builds
TeeFunctions ==
    {[fn |-> "TvmCreate", donor |-> a] : a \in DonorAddrs}
    \cup {[fn |-> "TvmDestroy", guest_id |-> k] : k \in GuestIdArgs}
    \cup {[fn |-> "AddPageTablePages", guest_id |-> k, page_addr |-> a, num_pages |-> n] :
              k \in GuestIdArgs, a \in PageAddrArgs, n \in NumPagesArgs}
    \cup {[fn |-> "AddPages", guest_id |-> k, page_addr |-> a, page_type |-> t,
           num_pages |-> n, gpa |-> g, measure_preserve |-> mp] :
              k \in GuestIdArgs, a \in PageAddrArgs, t \in PageTypeArgs,
              n \in NumPagesArgs, g \in GpaArgs, mp \in BOOLEAN}
    \cup {[fn |-> "Finalize", guest_id |-> k] : k \in GuestIdArgs}
    \cup {[fn |-> "Run", guest_id |-> k] : k \in GuestIdArgs}
    \cup {[fn |-> "RemovePages", guest_id |-> k, gpa |-> g, remap_addr |-> a,
           num_pages |-> n] :
              k \in GuestIdArgs, g \in GpaArgs, a \in PageAddrArgs, n \in NumPagesArgs}
    \cup {[fn |-> "GetGuestMeasurement", guest_id |-> k, measurement_version |-> v,
           measurement_type |-> t, page_addr |-> a] :
              k \in GuestIdArgs, v \in MeasurementArgs, t \in MeasurementArgs,
              a \in PageAddrArgs}

ResetFunctions ==
    {ResetFunction_Reset(ResetTypes[i], ResetReasons[j]) :
        i \in 1..Len(ResetTypes), j \in 1..Len(ResetReasons)}

\* SbiMessage values a caller builds
SbiMessages ==
    {SbiMessage_Tee(f) : f \in TeeFunctions}
    \cup {SbiMessage_Reset(r) : r \in ResetFunctions}
    \cup {SbiMessage_Base(BaseFunctions[i]) : i \in 1..Len(BaseFunctions)}
    \cup {SbiMessage_HartState(StateFunctions[i]) : i \in 1..Len(StateFunctions)}
    \cup {SbiMessage_PutChar(c) : c \in 0..MaxRawArg}

\* Extension ids a caller puts into a7: the five defined ones and two others
ExtArgs == {EXT_PUT_CHAR, EXT_BASE, EXT_HART_STATE, EXT_RESET, EXT_TEE, 0, EXT_TEE + 1}

\* Register files a caller loads by hand
RawRegs ==
    {[r \in 0..7 |->
         CASE r = A0 -> a0 [] r = A1 -> a1 [] r = A5 -> a5 [] r = A6 -> a6 [] r = A7 -> a7
           [] OTHER -> 1] :
        a0 \in 0..MaxRawArg, a1 \in 0..MaxRawArg, a5 \in {1}, a6 \in 0..MaxFuncId,
        a7 \in ExtArgs}

\* Codes an SBI implementation can put into a0
SbiCodes ==
    {SBI_SUCCESS, SBI_ERR_FAILED, SBI_ERR_NOT_SUPPORTED, SBI_ERR_INVALID_PARAM,
     SBI_ERR_DENIED, SBI_ERR_INVALID_ADDRESS, SBI_ERR_ALREADY_AVAILABLE,
     SBI_ERR_ALREADY_STARTED, SBI_ERR_ALREADY_STOPPED}

ZeroRegs == [r \in 0..7 |-> 0]

\* A Vm about to be entered for the first time: the host with its registry, or
\* a guest without one
InitSbi ==
    /\ \/ HostVmNew
       \/ GuestVmNew /\ self_id = 2
    /\ gprs = ZeroRegs
    /\ gprs_in = ZeroRegs
    /\ sepc = 0
    /\ sent = None
    /\ msg = None
    /\ sbi_result = None
    /\ PageIdle
    /\ MapIdle
    /\ RunIdle
    /\ LoopIdle /\ NoneDestroyed

\* The VM executes ecall with the registers `regs`
Ecall(regs, m) ==
    /\ hart = "vm"
    /\ sepc < 4 * MaxEcalls
    /\ hart' = "ecall"
    /\ gprs' = regs
    /\ gprs_in' = regs
    /\ sent' = m
    /\ msg' = None
    /\ sbi_result' = None
    /\ UNCHANGED <<sepc, guests, guest_slots, phys, next_id, tee_call, tee_ret, tee_before,
                   finalized, self_id>>

\* ecall_send(msg): the registers are loaded from an SbiMessage
EcallSend == \E m \in SbiMessages : Ecall(ecall_regs(m), Some(m))

\* The registers are loaded by hand
EcallRaw == \E regs \in RawRegs : Ecall(regs, None)

\* Mutant: sepc moves past the ecall only when the call succeeded
HandleEcall_sepc_on_success ==
    /\ hart = "ecall"
    /\ LET decoded == SbiMessage_from_regs(gprs)
           h == handle_ecall_result(decoded, CallerVm, phys, next_id)
           tee == decoded.ok /\ decoded.val.ext = "Tee"
           out == IF tee THEN handle_tee_msg(CallerVm, phys, next_id, decoded.val.tee)
                  ELSE Outcome(guests, phys, next_id, Ok(0))
       IN  /\ msg' = Some(decoded)
           /\ gprs' = handle_ecall_regs(gprs, h.res)
           /\ hart' = IF h.poweroff THEN "off" ELSE "trap"
           /\ sepc' = IF h.poweroff \/ ~h.res.ok THEN sepc ELSE sepc + 4
           /\ guests' = out.guests
           /\ phys' = out.phys
           /\ next_id' = out.next_id
           /\ tee_call' = IF tee THEN decoded.val.tee ELSE NoCall
           /\ tee_ret' = IF tee THEN SbiReturn_from(out.res) ELSE NoReturn
           /\ tee_before' = [guests |-> guests, phys |-> phys]
           /\ finalized' = IF tee /\ decoded.val.tee.fn = "Finalize" /\ out.res.ok
                           THEN finalized \cup {decoded.val.tee.guest_id} ELSE finalized
    /\ UNCHANGED <<gprs_in, sent, sbi_result, guest_slots, self_id>>

\* Vm::run on VirtualSupervisorEnvCall: handle_ecall, then inc_sepc_ecall
HandleEcall ==
    /\ hart = "ecall"
    /\ LET decoded == SbiMessage_from_regs(gprs)
           h == handle_ecall_result(decoded, CallerVm, phys, next_id)
           tee == decoded.ok /\ decoded.val.ext = "Tee"
           out == IF tee THEN handle_tee_msg(CallerVm, phys, next_id, decoded.val.tee)
                  ELSE Outcome(guests, phys, next_id, Ok(0))
       IN  /\ msg' = Some(decoded)
           /\ gprs' = handle_ecall_regs(gprs, h.res)
           /\ hart' = IF h.poweroff THEN "off" ELSE "trap"
           /\ sepc' = IF h.poweroff THEN sepc ELSE sepc + 4
           /\ guests' = out.guests
           /\ phys' = out.phys
           /\ next_id' = out.next_id
           /\ tee_call' = IF tee THEN decoded.val.tee ELSE NoCall
           /\ tee_ret' = IF tee THEN SbiReturn_from(out.res) ELSE NoReturn
           /\ tee_before' = [guests |-> guests, phys |-> phys]
           /\ finalized' = IF tee /\ decoded.val.tee.fn = "Finalize" /\ out.res.ok
                           THEN finalized \cup {decoded.val.tee.guest_id} ELSE finalized
    /\ UNCHANGED <<gprs_in, sent, sbi_result, guest_slots, self_id>>

\* The caller of ecall_send runs on another SBI implementation, which answers
\* with any code in a0
OtherSbiReturn ==
    /\ hart = "ecall"
    /\ sent.some
    /\ \E code \in SbiCodes : gprs' = [gprs EXCEPT ![A0] = code, ![A1] = 1]
    /\ hart' = "trap"
    /\ UNCHANGED <<gprs_in, sepc, sent, msg, sbi_result, guests, guest_slots, phys, next_id,
                   tee_call, tee_ret, tee_before, finalized, self_id>>

\* ecall_send returns msg.result(a0, a1) to the caller
ReadResult ==
    /\ hart = "trap"
    /\ sent.some
    /\ hart' = "returned"
    /\ sbi_result' = Some(SbiMessage_result(sent.val, gprs[A0], gprs[A1]))
    /\ UNCHANGED <<gprs, gprs_in, sepc, sent, msg, guests, guest_slots, phys, next_id,
                   tee_call, tee_ret, tee_before, finalized, self_id>>

\* The VM runs on; its own instructions overwrite the registers
RunOn ==
    /\ \/ hart = "returned"
       \/ hart = "trap" /\ ~sent.some
    /\ hart' = "vm"
    /\ gprs' = ZeroRegs
    /\ gprs_in' = ZeroRegs
    /\ sent' = None
    /\ msg' = None
    /\ sbi_result' = None
    /\ tee_call' = NoCall
    /\ tee_ret' = NoReturn
    /\ tee_before' = NoBefore
    /\ UNCHANGED <<sepc, guests, guest_slots, phys, next_id, finalized, self_id>>

NextSbi ==
    \/ EcallSend /\ UNCHANGED <<pvars, mvars, rvars, lvars, dvars>>
    \/ EcallRaw /\ UNCHANGED <<pvars, mvars, rvars, lvars, dvars>>
    \/ HandleEcall /\ UNCHANGED <<pvars, mvars, rvars, lvars, dvars>>
    \/ OtherSbiReturn /\ UNCHANGED <<pvars, mvars, rvars, lvars, dvars>>
    \/ ReadResult /\ UNCHANGED <<pvars, mvars, rvars, lvars, dvars>>
    \/ RunOn /\ UNCHANGED <<pvars, mvars, rvars, lvars, dvars>>

SpecSbi == InitSbi /\ [][NextSbi]_vars

-----------------------------------------------------------------------------
(* SpecLoop: the loop of Vm::run. Each pass enters the VM until it traps:   *)
(* an ecall is handled and the VM entered again, a guest page fault is     *)
(* serviced or ends the loop, any other trap ends it.                      *)

VirtualSupervisorEnvCall == "VirtualSupervisorEnvCall"

GuestPageFaults == {"GuestInstructionPageFault", "GuestLoadPageFault", "GuestStorePageFault"}

\* Traps Vm::run has no arm for
OtherTraps == {"IllegalInstruction", "SupervisorExternalInterrupt"}

\* run_to_exit returns Trap::Exception(VirtualSupervisorEnvCall)
TrapEcall ==
    /\ run_ret = None
    /\ EcallSend \/ EcallRaw
    /\ trap' = [cause |-> VirtualSupervisorEnvCall, serviced |-> FALSE]
    /\ UNCHANGED <<run_ret, handled>>

\* handle_ecall and inc_sepc_ecall have returned
EcallHandled ==
    /\ HandleEcall
    /\ handled' = handled + 1
    /\ trap' = [trap EXCEPT !.serviced = TRUE]
    /\ UNCHANGED run_ret

\* The loop goes round: the VM is entered again behind the ecall
EnterAgain ==
    /\ \/ ReadResult
       \/ RunOn
    /\ UNCHANGED lvars

\* run_to_exit returns a guest page fault: handle_guest_fault services it and
\* the loop goes on, or fails and Vm::run returns the fault
GuestPageFault ==
    /\ hart = "vm"
    /\ run_ret = None
    /\ \E cause \in GuestPageFaults, ok \in BOOLEAN :
          /\ trap' = [cause |-> cause, serviced |-> ok]
          /\ run_ret' = IF ok THEN None ELSE Some(cause)
          /\ hart' = IF ok THEN "vm" ELSE "exited"
    /\ UNCHANGED <<handled, svars, guests, guest_slots, phys, next_id, tee_call, tee_ret,
                   tee_before, finalized, self_id>>

\* `e => return e`
OtherTrap ==
    /\ hart = "vm"
    /\ run_ret = None
    /\ \E cause \in OtherTraps :
          /\ trap' = [cause |-> cause, serviced |-> FALSE]
          /\ run_ret' = Some(cause)
    /\ hart' = "exited"
    /\ UNCHANGED <<handled, svars, guests, guest_slots, phys, next_id, tee_call, tee_ret,
                   tee_before, finalized, self_id>>

NextLoop ==
    \/ TrapEcall /\ UNCHANGED <<pvars, mvars, rvars, dvars>>
    \/ EcallHandled /\ UNCHANGED <<pvars, mvars, rvars, dvars>>
    \/ EnterAgain /\ UNCHANGED <<pvars, mvars, rvars, dvars>>
    \/ GuestPageFault /\ UNCHANGED <<pvars, mvars, rvars, dvars>>
    \/ OtherTrap /\ UNCHANGED <<pvars, mvars, rvars, dvars>>

SpecLoop == InitSbi /\ [][NextLoop]_vars

-----------------------------------------------------------------------------
(* SpecRun: as SpecTee, but a Run call that finds its guest leaves the hart *)
(* inside Vm::run of that guest until the guest exits. guest_run holds the *)
(* host Vm by `&mut self` for all that time.                               *)

InitRun ==
    /\ HostVmNew
    /\ guest_slots = 1
    /\ run_id = 0
    /\ guest_ret = NoReturn
    /\ PageIdle
    /\ MapIdle
    /\ SbiIdle
    /\ LoopIdle /\ NoneDestroyed

\* guest_run: an error returns at once; otherwise Vm::run of the guest starts
\* (has_run is set) and the hart enters the guest
RunEnter ==
    \E k \in GuestIdArgs :
        LET call == [fn |-> "Run", guest_id |-> k]
            out == guest_run(CallerVm, phys, next_id, k)
        IN  IF ~out.res.ok
            THEN Dispatch(call, out) /\ UNCHANGED rvars
            ELSE /\ hart = "vm"
                 /\ hart' = "guest"
                 /\ run_id' = k
                 /\ guest_ret' = NoReturn
                 /\ guests' = out.guests
                 /\ tee_call' = call
                 /\ tee_ret' = NoReturn
                 /\ tee_before' = [guests |-> guests, phys |-> phys]
                 /\ UNCHANGED <<guest_slots, phys, next_id, finalized, self_id>>

\* The Vm of the running guest, as the host's registry holds it
RunningVm ==
    LET i == CHOOSE j \in 1..Len(guests.val) : guests.val[j].id = run_id
    IN  [guests |-> guests.val[i].guests, capacity |-> 0, id |-> run_id]

\* Vm::run of the guest on VirtualSupervisorEnvCall: the guest's own
\* handle_ecall serves a TvmDestroy the guest issues
GuestTvmDestroy ==
    /\ hart = "guest"
    /\ \E k \in GuestIdArgs :
          LET out == destroy_guest(RunningVm, phys, next_id, k)
          IN  /\ guest_ret' = SbiReturn_from(out.res)
              /\ phys' = out.phys
              /\ next_id' = out.next_id
    /\ UNCHANGED <<guests, guest_slots, tee_call, tee_ret, tee_before, finalized, hart,
                   self_id, run_id>>

\* Vm::run of the guest on VirtualSupervisorEnvCall: the guest's own
\* handle_ecall serves a TvmCreate the guest issues; what add_guest makes of
\* the guest's registry stays in the guest's Vm
GuestTvmCreate ==
    /\ hart = "guest"
    /\ \E donor \in DonorAddrs :
          LET i == CHOOSE j \in 1..Len(guests.val) : guests.val[j].id = run_id
              out == add_guest(RunningVm, phys, next_id, donor)
          IN  /\ guest_ret' = SbiReturn_from(out.res)
              /\ guests' = [guests EXCEPT !.val[i].guests = out.guests]
              /\ phys' = out.phys
              /\ next_id' = out.next_id
              /\ sent' = Some(SbiMessage_Tee([fn |-> "TvmCreate", donor |-> donor]))
    /\ UNCHANGED <<guest_slots, tee_call, tee_ret, tee_before, finalized, hart, self_id,
                   run_id, gprs, gprs_in, sepc, msg, sbi_result>>

\* Vm::run of the guest returns on a trap it does not handle; guest_run
\* returns Ok(0) to the host
RunExit ==
    /\ hart = "guest"
    /\ hart' = "trap"
    /\ tee_ret' = SbiReturn_success(0)
    /\ run_id' = 0
    /\ guest_ret' = NoReturn
    /\ UNCHANGED <<guests, guest_slots, phys, next_id, tee_call, tee_before, finalized,
                   self_id>>

NextRun ==
    \/ TvmCreate /\ UNCHANGED <<pvars, mvars, svars, rvars, lvars, dvars>>
    \/ TvmDestroy /\ UNCHANGED <<pvars, mvars, svars, rvars, lvars, dvars>>
    \/ AddPages /\ UNCHANGED <<pvars, mvars, svars, rvars, lvars, dvars>>
    \/ Finalize /\ UNCHANGED <<pvars, mvars, svars, rvars, lvars, dvars>>
    \/ RunEnter /\ UNCHANGED <<pvars, mvars, svars, lvars, dvars>>
    \/ GuestTvmDestroy /\ UNCHANGED <<pvars, mvars, svars, lvars, dvars>>
    \/ GuestTvmCreate /\ UNCHANGED <<pvars, mvars, lvars, dvars>>
    \/ RunExit /\ UNCHANGED <<pvars, mvars, svars, lvars, dvars>>
    \/ Resume /\ UNCHANGED <<pvars, mvars, svars, rvars, lvars, dvars>>

SpecRun == InitRun /\ [][NextRun]_vars

-----------------------------------------------------------------------------
(* Properties of one PageInfo (checked under Spec)                         *)

Top(owners) == owners[Len(owners)]

\* C1: an Owned page never holds more than MAX_PAGE_OWNERS = 3 owners, and a
\* push_owner on a stack that already holds 3 owners fails with OwnerOverflow
\* and leaves the page unchanged.
C1_StackDepthBounded ==
    /\ page.tag = "Owned" => Len(page.owners) <= 3
    /\ (op = "push_owner" /\ before.tag = "Owned" /\ Len(before.owners) = 3)
          => (res = Err("OwnerOverflow") /\ page = before)

C1_Witness ==
    /\ op = "push_owner"
    /\ before.tag = "Owned" /\ Len(before.owners) = 3
    /\ res = Err("OwnerOverflow")

\* C2: an Owned page always holds at least one owner; pop_owner on two or more
\* owners removes and returns exactly the top owner; pop_owner on exactly one
\* owner fails with OwnerOverflow and leaves the page unchanged (Owned, not Free).
C2_StackNeverEmpty ==
    /\ page.tag = "Owned" => Len(page.owners) >= 1
    /\ (op = "pop_owner" /\ before.tag = "Owned" /\ Len(before.owners) >= 2)
          => /\ res = Ok(Top(before.owners))
             /\ page = Owned(SubSeq(before.owners, 1, Len(before.owners) - 1))
    /\ (op = "pop_owner" /\ before.tag = "Owned" /\ Len(before.owners) = 1)
          => /\ res = Err("OwnerOverflow")
             /\ page = before
             /\ ~is_free(page)

C2_Witness ==
    /\ op = "pop_owner" /\ prev_op = "pop_owner"
    /\ before2.tag = "Owned" /\ Len(before2.owners) = 2
    /\ prev_res.ok
    /\ res = Err("OwnerOverflow")

\* C3: a Reserved page stays Reserved: push_owner and pop_owner on it fail with
\* ReservedPage, pop_owners_while removes nothing, owner() returns none.
C3_ReservedIsForever ==
    before.tag = "Reserved" =>
        /\ page = Reserved
        /\ op = "push_owner" => res = Err("ReservedPage")
        /\ op = "pop_owner" => res = Err("ReservedPage")
        /\ op = "pop_owners_while" => res.done
        /\ op = "owner" => res = None

C3_Witness ==
    /\ before2.tag = "Reserved" /\ before.tag = "Reserved" /\ page.tag = "Reserved"
    /\ prev_op = "push_owner" /\ op = "pop_owner"

\* C4 as stated: push_owner(id) then pop_owner on a page that was Owned at any
\* depth 1..D leaves the page as it was before the push.
C4_RoundTripAnyDepth ==
    (prev_op = "push_owner" /\ op = "pop_owner" /\ before2.tag = "Owned")
        => page = before2

\* C4 (amended): push_owner(id) then pop_owner on a page that was Owned at a
\* depth below D leaves the page as it was before the push, the push succeeds
\* and the pop returns id; at depth D the push fails with OwnerOverflow and the
\* pop then removes the owner that was on top before.
C4_RoundTripBelowMaxDepth ==
    (prev_op = "push_owner" /\ op = "pop_owner" /\ before2.tag = "Owned") =>
        IF Len(before2.owners) < MAX_PAGE_OWNERS
        THEN /\ prev_res = Ok(Unit)
             /\ res = Ok(prev_arg)
             /\ page = before2
        ELSE /\ prev_res = Err("OwnerOverflow")
             /\ res = Ok(Top(before2.owners))
             /\ page = Owned(SubSeq(before2.owners, 1, Len(before2.owners) - 1))

C4_Witness ==
    /\ prev_op = "push_owner" /\ op = "pop_owner"
    /\ before2.tag = "Owned" /\ Len(before2.owners) = 2
    /\ page = before2

\* C5: a Free page changes only through push_owner(id), which makes it
\* Owned([id]); pop_owner on a Free page fails with UnownedPage and leaves it
\* Free; a Free page never becomes Reserved and an Owned page never becomes Free.
C5_FreeOnlyBecomesOwned ==
    /\ (before.tag = "Free" /\ page # before)
          => (op = "push_owner" /\ res = Ok(Unit) /\ page = Owned(<<arg>>))
    /\ (before.tag = "Free" /\ op = "push_owner") => page = Owned(<<arg>>)
    /\ (before.tag = "Free" /\ op = "pop_owner")
          => (res = Err("UnownedPage") /\ page = Free)
    /\ before.tag = "Free" => page.tag # "Reserved"
    /\ before.tag = "Owned" => page.tag = "Owned"

C5_Witness ==
    /\ before2.tag = "Free" /\ prev_op = "pop_owner" /\ before.tag = "Free"
    /\ op = "push_owner" /\ page.tag = "Owned"

\* C6: owner() returns the top of the stack, which is the most recently pushed
\* owner not yet popped, for an Owned page, and none for a Free or Reserved page.
C6_OwnerIsTopOfStack ==
    /\ op = "owner" =>
          /\ page = before
          /\ page.tag = "Owned" => res = Some(page.owners[Len(page.owners)])
          /\ page.tag \in {"Free", "Reserved"} => res = None
    /\ (op = "owner" /\ prev_op = "push_owner" /\ prev_res.ok) => res = Some(prev_arg)
    /\ (op = "owner" /\ prev_op = "pop_owner" /\ prev_res.ok)
          => res = Some(before2.owners[Len(before2.owners) - 1])

C6_Witness ==
    /\ op = "owner" /\ prev_op = "pop_owner" /\ prev_res.ok
    /\ Len(before2.owners) = 3
    /\ res.some /\ res.val # before2.owners[1]

\* C7: pop_owners_while(p) terminates without error; it removes exactly the
\* maximal run of owners at the top of the stack that satisfy p, but never the
\* bottom owner; on Free and Reserved pages it changes nothing.
C7_PopWhileRemovesMaximalRun ==
    op = "pop_owners_while" =>
        /\ res.done
        /\ before.tag \in {"Free", "Reserved"} => page = before
        /\ before.tag = "Owned" =>
              LET n == Len(before.owners)
                  m == Len(page.owners)
              IN  /\ page.tag = "Owned"
                  /\ 1 <= m /\ m <= n
                  /\ page.owners = SubSeq(before.owners, 1, m)
                  /\ \A i \in (m + 1)..n : before.owners[i] \in arg
                  /\ m = 1 \/ ~(before.owners[m] \in arg)

C7_Witness ==
    /\ op = "pop_owners_while"
    /\ Len(before.owners) = 3 /\ Len(page.owners) = 1
    /\ page.owners[1] \in arg

-----------------------------------------------------------------------------
(* Properties of a populated PageMap (checked under SpecMap)               *)

\* Region index of the region holding frame pfn, or 0
RegionOf(pfn) ==
    LET hits == {i \in 1..Len(mem_map) :
                    mem_map[i].base <= pfn /\ pfn < mem_map[i].base + mem_map[i].size}
    IN  IF hits = {} THEN 0 ELSE CHOOSE i \in hits : TRUE

RECURSIVE FramesBefore(_)
FramesBefore(i) == IF i <= 1 THEN 0 ELSE FramesBefore(i - 1) + mem_map[i - 1].size

TotalFrames == FramesBefore(Len(mem_map) + 1)

\* The PageInfo a frame of a region of this type is to start with
ExpectedInfo(mem_type) ==
    IF mem_type = "Available" THEN [tag |-> "Free", owners |-> <<>>]
    ELSE IF mem_type = "HostKernelImage" \/ mem_type = "HostInitramfsImage"
         THEN [tag |-> "Owned", owners |-> <<0>>]
         ELSE [tag |-> "Reserved", owners |-> <<>>]

\* C8: in a populated PageMap every frame of an Available region is Free, every
\* frame of a HostKernelImage or HostInitramfsImage region is Owned by the
\* hypervisor alone (depth 1), and every frame of another Reserved region is
\* Reserved; both in the slot the frame was pushed to and as get() reports it.
C8_FramesClassifiedByRegionType ==
    mstate = "populated" =>
        /\ Len(pages) = TotalFrames
        /\ \A i \in 1..Len(mem_map) : \A k \in 0..(mem_map[i].size - 1) :
              LET info == pages[FramesBefore(i) + k + 1]
                  got == get(pages, sparse_map, PageAddr(mem_map[i].base + k, "Size4k"))
                  t == mem_map[i].mem_type
              IN  /\ info = ExpectedInfo(t)
                  /\ got = Some(info)
                  /\ t = "Available" => is_free(info)
                  /\ t \in {"HostKernelImage", "HostInitramfsImage"}
                        => (owner(info) = Some(hypervisor) /\ Len(info.owners) = 1)
                  /\ t \in {"FirmwareReserved", "PageMap"} => is_reserved(info)

C8_Witness ==
    /\ mstate = "populated"
    /\ Len(mem_map) = 3
    /\ mem_map[1].mem_type = "Available"
    /\ mem_map[2].mem_type = "FirmwareReserved"
    /\ mem_map[3].mem_type = "HostInitramfsImage"
    /\ mem_map[3].base > mem_map[2].base + mem_map[2].size
    /\ pages[Len(pages)] = Owned(<<hypervisor>>)

\* C9: get(a) is defined for every 4 KiB frame address inside a region, with an
\* index below the number of PageInfo slots, and is none for every frame
\* address outside all regions, the frames just before and just after a region
\* included.
C9_GetDefinedExactlyInsideRegions ==
    /\ (mop = "get" /\ maddr.size = "Size4k") =>
          IF RegionOf(maddr.pfn) # 0
          THEN /\ mres.info.some
               /\ mres.index.some
               /\ mres.index.val >= 0 /\ mres.index.val < Len(pages)
               /\ mres.index.val = FramesBefore(RegionOf(maddr.pfn))
                                       + maddr.pfn - mem_map[RegionOf(maddr.pfn)].base
          ELSE mres.info = None
    /\ mstate = "populated" =>
          \A pfn \in 0..(MaxPfn + 1) :
              get(pages, sparse_map, PageAddr(pfn, "Size4k")).some <=> RegionOf(pfn) # 0

C9_Witness ==
    /\ mop = "get" /\ maddr.size = "Size4k"
    /\ Len(mem_map) >= 2
    /\ maddr.pfn = mem_map[1].base + mem_map[1].size
    /\ RegionOf(maddr.pfn) = 0
    /\ RegionOf(maddr.pfn + 1) = 2
    /\ mres.info = None

-----------------------------------------------------------------------------
(* Properties of the TEE calls (checked under SpecTee)                     *)

\* The host is returning from an AddPageTablePages or an AddPages call
AddCallReturned ==
    hart = "trap" /\ tee_call.fn \in {"AddPageTablePages", "AddPages"}

\* The call is returning and a Finalize of the guest it names succeeded earlier
AddCallAfterFinalize == AddCallReturned /\ tee_call.guest_id \in finalized

\* An address argument that the handler converts is not 4 KiB-aligned
AddCallUnaligned ==
    \/ tee_call.fn = "AddPageTablePages" /\ ~AlignedPageAddr4k_new(tee_call.page_addr).some
    \/ /\ tee_call.fn = "AddPages"
       /\ tee_call.page_type <= 3
       /\ \/ ~AlignedPageAddr4k_new(tee_call.page_addr).some
          \/ ~AlignedPageAddr4k_new(tee_call.gpa).some

\* The entry the call names, in the registry the call started from
NamedBefore ==
    {i \in 1..Len(tee_before.guests.val) :
        tee_before.guests.val[i].id = tee_call.guest_id}

\* The call names an Initializing guest and well-formed pages of the caller
AddCallWellFormedBeforeFinalize ==
    /\ AddCallReturned
    /\ \E i \in NamedBefore : tee_before.guests.val[i].tag = "Init"
    /\ AlignedPageAddr4k_new(tee_call.page_addr).some
    /\ owned_by(tee_before.phys,
                FrameRange(AlignedPageAddr4k_new(tee_call.page_addr).val,
                           tee_call.num_pages), host)
    /\ tee_call.fn = "AddPages" =>
          /\ tee_call.page_type <= 3
          /\ AlignedPageAddr4k_new(tee_call.gpa).some
          /\ \A i \in NamedBefore : \A m \in tee_before.guests.val[i].mapped :
                m[1] \notin FrameRange(AlignedPageAddr4k_new(tee_call.gpa).val,
                                       tee_call.num_pages)

\* The call was accepted: success, and the guest is the pages' current owner
AddCallAccepted ==
    /\ tee_ret.error_code = SBI_SUCCESS
    /\ owned_by(phys, FrameRange(AlignedPageAddr4k_new(tee_call.page_addr).val,
                                 tee_call.num_pages), tee_call.guest_id)

\* The call handed nothing over: registry and frames are as before the call
AddCallChangedNothing == guests = tee_before.guests /\ phys = tee_before.phys

\* C10 as stated: once Finalize(k) has succeeded, every later
\* AddPageTablePages(k, ...) or AddPages(k, ...) returns InvalidParam and hands
\* no page to the guest; the same calls before Finalize(k) are accepted.
C10_AddsAfterFinalizeReturnInvalidParam ==
    /\ AddCallAfterFinalize =>
          (tee_ret.error_code = SBI_ERR_INVALID_PARAM /\ AddCallChangedNothing)
    /\ AddCallWellFormedBeforeFinalize => AddCallAccepted

\* C10 amended: once Finalize(k) has succeeded, every later
\* AddPageTablePages(k, ...) or AddPages(k, ...) returns an error and hands no
\* page to the guest; the error is InvalidAddress when an address argument the
\* handler converts is not 4 KiB-aligned and InvalidParam otherwise. The same
\* calls before Finalize(k) are accepted.
C10_AddsAfterFinalizeRejected ==
    /\ AddCallAfterFinalize =>
          /\ tee_ret.error_code = IF AddCallUnaligned THEN SBI_ERR_INVALID_ADDRESS
                                  ELSE SBI_ERR_INVALID_PARAM
          /\ AddCallChangedNothing
    /\ AddCallWellFormedBeforeFinalize => AddCallAccepted

\* A well-formed AddPages naming a guest that is still registered, after its
\* Finalize: rejected with InvalidParam
C10_Witness ==
    /\ AddCallAfterFinalize
    /\ tee_call.fn = "AddPages"
    /\ ~AddCallUnaligned
    /\ tee_call.page_type <= 3
    /\ owned_by(tee_before.phys,
                FrameRange(AlignedPageAddr4k_new(tee_call.page_addr).val,
                           tee_call.num_pages), host)
    /\ \E i \in NamedBefore : tee_before.guests.val[i].tag = "Running"
    /\ tee_ret.error_code = SBI_ERR_INVALID_PARAM
    /\ AddCallChangedNothing

\* The host is returning from a Run or a RemovePages call that named a guest
\* which was Initializing when the call started
RunOrRemoveOnInitializing ==
    /\ hart = "trap"
    /\ tee_call.fn \in {"Run", "RemovePages"}
    /\ \E i \in NamedBefore : tee_before.guests.val[i].tag = "Init"

\* No guest was entered and no page was unmapped by the call
NothingEnteredOrUnmapped ==
    /\ guests = tee_before.guests
    /\ phys = tee_before.phys
    /\ \A i \in 1..Len(guests.val) : guests.val[i].tag = "Init" => ~guests.val[i].has_run

\* C11 as stated: Run(k) or RemovePages(k, ...) issued while guest k is still
\* Initializing returns InvalidParam, never enters the guest and never unmaps
\* a page.
C11_RunRemoveBeforeFinalizeInvalidParam ==
    RunOrRemoveOnInitializing =>
        (tee_ret.error_code = SBI_ERR_INVALID_PARAM /\ NothingEnteredOrUnmapped)

\* C11 amended: Run(k) or RemovePages(k, ...) issued while guest k is still
\* Initializing returns an error, never enters the guest and never unmaps a
\* page; the error is InvalidAddress for a RemovePages whose gpa is not 4 KiB-
\* aligned and InvalidParam otherwise.
C11_RunRemoveBeforeFinalizeRejected ==
    RunOrRemoveOnInitializing =>
        /\ tee_ret.error_code =
              IF tee_call.fn = "RemovePages" /\ ~AlignedPageAddr4k_new(tee_call.gpa).some
              THEN SBI_ERR_INVALID_ADDRESS ELSE SBI_ERR_INVALID_PARAM
        /\ NothingEnteredOrUnmapped

\* Run on a guest that holds mapped pages and is still Initializing
C11_Witness ==
    /\ RunOrRemoveOnInitializing
    /\ tee_call.fn = "Run"
    /\ \E i \in NamedBefore : tee_before.guests.val[i].mapped # {}
    /\ tee_ret.error_code = SBI_ERR_INVALID_PARAM
    /\ NothingEnteredOrUnmapped

\* The host is returning from a Finalize call
FinalizeReturned == hart = "trap" /\ tee_call.fn = "Finalize"

\* Registry and frames are as they were when the call started
CallChangedNothing == guests = tee_before.guests /\ phys = tee_before.phys

\* C12: Finalize(k) on an Initializing guest of the caller's registry returns
\* success and leaves the entry for k Running under the same id, with the
\* builder's pages, every other entry and every frame untouched; Finalize naming
\* an id that is not in the registry returns InvalidParam and changes nothing.
C12_FinalizeInitToRunning ==
    FinalizeReturned =>
        /\ (\E i \in NamedBefore : tee_before.guests.val[i].tag = "Init") =>
              /\ tee_ret = SbiReturn_success(0)
              /\ phys = tee_before.phys
              /\ Len(guests.val) = Len(tee_before.guests.val)
              /\ \A i \in 1..Len(guests.val) :
                    LET b == tee_before.guests.val[i]
                        a == guests.val[i]
                    IN  IF i \in NamedBefore
                        THEN /\ a.tag = "Running"
                             /\ a.id = b.id /\ a.id = tee_call.guest_id
                             /\ a.root = b.root
                             /\ a.pt_pages = b.pt_pages
                             /\ a.mapped = b.mapped
                        ELSE a = b
        /\ NamedBefore = {} =>
              (tee_ret.error_code = SBI_ERR_INVALID_PARAM /\ CallChangedNothing)

\* Finalize of an Initializing guest that holds pages, next to another guest
C12_Witness ==
    /\ FinalizeReturned
    /\ Len(tee_before.guests.val) = 2
    /\ \E i \in NamedBefore :
          /\ tee_before.guests.val[i].tag = "Init"
          /\ tee_before.guests.val[i].mapped # {}
          /\ guests.val[i].tag = "Running"
    /\ tee_ret = SbiReturn_success(0)

\* Every entry of the registry r is Initializing or Running, and none of the
\* state accessors reaches its unreachable!() arm on it
NoTransientIn(r) ==
    r.some =>
        \A i \in 1..Len(r.val) :
            /\ r.val[i].tag \in {"Init", "Running"}
            /\ page_owner_id(r.val[i]) # PanicId
            /\ init_mut(r.val[i]) # Panic
            /\ vm_mut(r.val[i]) # Panic

\* C13: at the start and at the end of every dispatcher call every registry
\* entry is Initializing or Running, never the transient placeholder, so no
\* lookup, state accessor or page_owner_id query reaches an unreachable!() arm.
C13_TransientNeverObserved ==
    /\ NoTransientIn(guests)
    /\ hart = "trap" => NoTransientIn(tee_before.guests)

\* A registry lookup made by a Run call after the guest's Finalize went through
\* the placeholder
C13_Witness ==
    /\ hart = "trap"
    /\ tee_call.fn = "Run"
    /\ tee_call.guest_id \in finalized
    /\ \E i \in NamedBefore : tee_before.guests.val[i].tag = "Running"
    /\ tee_ret = SbiReturn_success(0)
    /\ NoTransientIn(guests)

\* The host is returning from a TvmDestroy call that reported success
DestroySucceeded ==
    hart = "trap" /\ tee_call.fn = "TvmDestroy" /\ tee_ret.error_code = SBI_SUCCESS

\* C14: after a successful TvmDestroy(k) the caller's registry holds no entry
\* with id k and no frame has k as its current owner: on every frame k owned,
\* k has been popped and the caller is the current owner again; the other
\* frames are untouched.
C14_DestroyReturnsPagesToCaller ==
    DestroySucceeded =>
        /\ \A i \in 1..Len(guests.val) : guests.val[i].id # tee_call.guest_id
        /\ \A f \in DOMAIN phys :
              /\ owner(phys[f]) # Some(tee_call.guest_id)
              /\ IF owner(tee_before.phys[f]) = Some(tee_call.guest_id)
                 THEN /\ owner(phys[f]) = Some(host)
                      /\ phys[f].owners = SubSeq(tee_before.phys[f].owners, 1,
                                                 Len(tee_before.phys[f].owners) - 1)
                 ELSE phys[f] = tee_before.phys[f]

\* Destroy of a guest that owned its five donor pages and a page added later,
\* next to another guest
C14_Witness ==
    /\ DestroySucceeded
    /\ NamedBefore # {}
    /\ Len(tee_before.guests.val) = 2
    /\ Cardinality({f \in DOMAIN phys :
                       owner(tee_before.phys[f]) = Some(tee_call.guest_id)})
          = TvmCreatePages + 1
    /\ \E f \in DOMAIN phys :
          /\ owner(tee_before.phys[f]) = Some(tee_call.guest_id)
          /\ owner(phys[f]) = Some(host)

\* C15: TvmDestroy(id) succeeds only when id names a guest currently in the
\* caller's registry; for an id that names no guest of the caller it returns an
\* error and leaves the registry unchanged.
C15_DestroyOnlyOfRegisteredGuest ==
    (hart = "trap" /\ tee_call.fn = "TvmDestroy") =>
        /\ tee_ret.error_code = SBI_SUCCESS => NamedBefore # {}
        /\ NamedBefore = {} =>
              (tee_ret.error_code # SBI_SUCCESS /\ guests = tee_before.guests)

-----------------------------------------------------------------------------
(* Properties of the TEE calls of a Vm without a registry (SpecGuest)      *)

\* A TEE call of a Vm that holds no guest registry is returning
CallWithoutRegistryReturned == hart = "trap" /\ ~tee_before.guests.some

\* The handler converts an address argument that is not 4 KiB-aligned before it
\* looks at the registry
UnalignedBeforeRegistry ==
    \/ AddCallReturned /\ AddCallUnaligned
    \/ tee_call.fn = "RemovePages" /\ ~AlignedPageAddr4k_new(tee_call.gpa).some

\* C16 as stated: every TEE function invoked by a VM that holds no guest
\* registry returns InvalidParam, whatever its other arguments are (unaligned
\* addresses included).
C16_NoRegistryAlwaysInvalidParam ==
    CallWithoutRegistryReturned => tee_ret.error_code = SBI_ERR_INVALID_PARAM

\* C16 amended: every TEE function invoked by a VM that holds no guest registry
\* returns an error and changes nothing: InvalidAddress when the handler
\* converts an unaligned address first (AddPageTablePages, RemovePages, and
\* AddPages with page_type <= 3), InvalidParam in every other case.
C16_NoRegistryAlwaysRejected ==
    CallWithoutRegistryReturned =>
        /\ tee_ret.error_code = IF UnalignedBeforeRegistry THEN SBI_ERR_INVALID_ADDRESS
                                ELSE SBI_ERR_INVALID_PARAM
        /\ tee_ret.return_value = 0
        /\ CallChangedNothing

\* A TvmCreate with well-formed donor pages, issued by a guest
C16_Witness ==
    /\ CallWithoutRegistryReturned
    /\ self_id # host
    /\ tee_call.fn = "TvmCreate"
    /\ tee_call.donor = 2 * TopLevelAlignPages * PageSize4k
    /\ tee_ret.error_code = SBI_ERR_INVALID_PARAM
    /\ CallChangedNothing

-----------------------------------------------------------------------------
(* Failure atomicity of the TEE calls (SpecTee)                             *)

\* A TvmCreate whose donor pages were accepted but whose entry found the
\* registry full
CreateFailedOnFullRegistry ==
    /\ hart = "trap"
    /\ tee_call.fn = "TvmCreate"
    /\ tee_ret.error_code # SBI_SUCCESS
    /\ tee_before.guests.some
    /\ Len(tee_before.guests.val) = guest_slots
    /\ AlignedPageAddr4k_new(tee_call.donor).some
    /\ create_guest_root_builder(tee_before.phys, next_id - 1, self_id,
                                 AlignedPageAddr4k_new(tee_call.donor).val).ok

\* The five donor pages of the returning TvmCreate
DonorFrames == FrameRange(AlignedPageAddr4k_new(tee_call.donor).val, TvmCreatePages)

-----------------------------------------------------------------------------
(* TvmCreate (SpecTee)                                                      *)

TvmCreateReturned == hart = "trap" /\ tee_call.fn = "TvmCreate"

\* The ids of the guests in a registry
GuestIdsOf(r) == IF r.some THEN {r.val[i].id : i \in 1..Len(r.val)} ELSE {}

\* id is the current owner of the frame and below is directly beneath it
OwnedDirectlyAbove(p, id, below) ==
    /\ p.tag = "Owned"
    /\ Len(p.owners) >= 2
    /\ p.owners[Len(p.owners)] = id
    /\ p.owners[Len(p.owners) - 1] = below

\* C18: a successful TvmCreate(donor) returns an id k that is neither the
\* hypervisor's, the host's nor that of a guest already in the registry; the
\* registry gains exactly one entry, with id k, Initializing; k owns the five
\* donor pages with the caller directly beneath. A donor address that is not
\* 4 KiB-aligned fails with InvalidAddress and adds no entry.
C18_TvmCreateMintsFreshGuest ==
    /\ (TvmCreateReturned /\ tee_ret.error_code = SBI_SUCCESS) =>
           LET k == tee_ret.return_value
           IN  /\ k \notin {hypervisor, host} \cup GuestIdsOf(tee_before.guests)
               /\ guests.some
               /\ Len(guests.val) = Len(tee_before.guests.val) + 1
               /\ SubSeq(guests.val, 1, Len(tee_before.guests.val)) = tee_before.guests.val
               /\ guests.val[Len(guests.val)].id = k
               /\ guests.val[Len(guests.val)].tag = "Init"
               /\ AlignedPageAddr4k_new(tee_call.donor).some
               /\ \A f \in DonorFrames : OwnedDirectlyAbove(phys[f], k, self_id)
    /\ (TvmCreateReturned /\ tee_before.guests.some
           /\ ~AlignedPageAddr4k_new(tee_call.donor).some) =>
           /\ tee_ret.error_code = SBI_ERR_INVALID_ADDRESS
           /\ guests = tee_before.guests

\* A second guest has been created next to one that is still registered
C18_Witness ==
    /\ TvmCreateReturned
    /\ tee_ret.error_code = SBI_SUCCESS
    /\ Len(tee_before.guests.val) = 1
    /\ tee_ret.return_value > tee_before.guests.val[1].id
    /\ Len(guests.val) = 2
    /\ \A f \in DonorFrames : OwnedDirectlyAbove(phys[f], tee_ret.return_value, host)

-----------------------------------------------------------------------------
(* AddPages and its page_type (SpecTee)                                     *)

AddPagesReturned == hart = "trap" /\ tee_call.fn = "AddPages"

\* C19: AddPages with a page_type outside {0, 1, 2, 3} returns InvalidParam
\* and changes no guest and no page, whatever its other arguments are.
C19_BadPageTypeInvalidParam ==
    (AddPagesReturned /\ tee_call.page_type \notin 0..3) =>
        /\ tee_ret.error_code = SBI_ERR_INVALID_PARAM
        /\ tee_ret.return_value = 0
        /\ guests = tee_before.guests
        /\ phys = tee_before.phys

\* page_type 4 on a call that names an Initializing guest and has an
\* unaligned address
C19_Witness ==
    /\ AddPagesReturned
    /\ tee_call.page_type = 4
    /\ ~AlignedPageAddr4k_new(tee_call.page_addr).some
    /\ \E i \in 1..Len(tee_before.guests.val) :
          /\ tee_before.guests.val[i].id = tee_call.guest_id
          /\ tee_before.guests.val[i].tag = "Init"
    /\ tee_ret.error_code = SBI_ERR_INVALID_PARAM

-----------------------------------------------------------------------------
(* GetGuestMeasurement (SpecTee)                                            *)

MeasurementReturned == hart = "trap" /\ tee_call.fn = "GetGuestMeasurement"

\* Version and type are 1, the page is 4 KiB-aligned and the id names a guest
\* of the registry the call started from
MeasurementWellFormed ==
    /\ tee_call.measurement_version = 1
    /\ tee_call.measurement_type = 1
    /\ AlignedPageAddr4k_new(tee_call.page_addr).some
    /\ tee_call.guest_id \in GuestIdsOf(tee_before.guests)

\* The page the call names is currently owned by the caller
MeasurementPageOfCaller ==
    /\ AlignedPageAddr4k_new(tee_call.page_addr).some
    /\ owned_by(tee_before.phys, {AlignedPageAddr4k_new(tee_call.page_addr).val}, self_id)

\* C20: GetGuestMeasurement(k, v, t, page) returns InvalidParam whenever v or t
\* is not 1, page is not 4 KiB-aligned, or k names no guest of the caller's
\* registry; it succeeds only when all of those hold and the caller currently
\* owns the page, and then it does succeed.
C20_MeasurementArgumentChecks ==
    MeasurementReturned =>
        /\ ~MeasurementWellFormed => tee_ret.error_code = SBI_ERR_INVALID_PARAM
        /\ tee_ret.error_code = SBI_SUCCESS <=>
               (MeasurementWellFormed /\ MeasurementPageOfCaller)
        /\ CallChangedNothing

\* A measurement of one of two registered guests is written to a page of the host
C20_Witness ==
    /\ MeasurementReturned
    /\ MeasurementWellFormed
    /\ MeasurementPageOfCaller
    /\ tee_ret.error_code = SBI_SUCCESS
    /\ tee_ret.return_value = 0
    /\ Len(guests.val) = 2

-----------------------------------------------------------------------------
(* Properties of the SBI encoding and of handle_ecall (SpecSbi)             *)

\* enum Error
ErrorKinds == {"InvalidAddress", "InvalidParam", "Failed", "NotSupported",
               "UnknownSbiExtension"}

\* The code the claim assigns to each kind
CodeOfKind(e) ==
    CASE e = "InvalidAddress" -> -5
      [] e = "InvalidParam" -> -3
      [] e = "NotSupported" -> -2
      [] e = "Failed" -> -1
      [] e = "UnknownSbiExtension" -> -3

\* The kind the claim assigns to each code
KindOfCode(c) ==
    CASE c = -5 -> "InvalidAddress"
      [] c = -3 -> "InvalidParam"
      [] c = -2 -> "NotSupported"
      [] OTHER -> "Failed"

\* The error with which this hypervisor's handle_ecall ended, if it did
EcallError ==
    IF ~msg.some THEN None
    ELSE IF ~msg.val.ok THEN Some(msg.val.err)
    ELSE IF msg.val.val.ext \in {"Base", "HartState"} THEN Some("NotSupported")
    ELSE IF msg.val.val.ext = "Tee" /\ tee_ret.error_code # SBI_SUCCESS
    THEN Some(IF tee_ret.error_code = SBI_ERR_INVALID_ADDRESS THEN "InvalidAddress"
              ELSE "InvalidParam")
    ELSE None

\* A caller of ecall_send has read the result of a TEE message
TeeResultRead == hart = "returned" /\ sent.val.ext = "Tee"

\* C21: kinds encode as InvalidAddress = -5, InvalidParam = -3, NotSupported = -2,
\* Failed = -1, UnknownSbiExtension = -3; a code decodes to InvalidAddress,
\* InvalidParam, NotSupported for -5, -3, -2 and to Failed otherwise; decoding
\* an encoded kind gives the kind back, except UnknownSbiExtension, which
\* comes back as InvalidParam.
C21_ErrorCodeTable ==
    /\ \A e \in ErrorKinds :
          /\ to_code(e) = CodeOfKind(e)
          /\ from_code(to_code(e)) = IF e = "UnknownSbiExtension" THEN "InvalidParam" ELSE e
    /\ (hart = "trap" /\ msg.some /\ ~msg.val.ok) => gprs[A0] = CodeOfKind(msg.val.err)
    /\ TeeResultRead =>
          sbi_result.val = IF gprs[A0] = 0 THEN Ok(gprs[A1])
                           ELSE Err(KindOfCode(gprs[A0]))
    /\ (TeeResultRead /\ EcallError.some) =>
          /\ ~sbi_result.val.ok
          /\ sbi_result.val.err = EcallError.val

\* A caller has read back the InvalidAddress with which its TEE call ended
C21_Witness ==
    /\ TeeResultRead
    /\ msg.some
    /\ EcallError = Some("InvalidAddress")
    /\ gprs[A0] = -5
    /\ sbi_result.val = Err("InvalidAddress")

\* An ecall that selected the TEE extension has been handled and ended in an error
TeeEcallFailed ==
    /\ hart = "trap"
    /\ msg.some
    /\ gprs_in[A7] = EXT_TEE
    /\ EcallError.some

\* C22: whenever an ecall that selects the TEE extension ends in an error,
\* raised while the registers are decoded or inside the dispatch, the caller
\* resumes with the error's SBI code in A0 and 0 in A1.
C22_TeeErrorWritesA0AndA1 ==
    TeeEcallFailed =>
        /\ gprs[A0] = CodeOfKind(EcallError.val)
        /\ gprs[A1] = 0

\* An ecall that selected the TEE extension has been decoded
TeeEcallDecoded == hart = "trap" /\ msg.some /\ gprs_in[A7] = EXT_TEE

\* The wire table: the function A6 selects
TeeFunctionOfA6 ==
    <<"TvmCreate", "TvmDestroy", "AddPageTablePages", "AddPages", "Finalize", "Run",
      "RemovePages", "GetGuestMeasurement">>

\* The decoded TeeFunction
DecodedTee == msg.val.val.tee

\* C23: A6 in 0..7 selects TvmCreate .. GetGuestMeasurement; guest_id comes from
\* A0 (the donor address for TvmCreate); AddPages reads page_addr, page_type,
\* num_pages, gpa from A1..A4; RemovePages reads gpa, remap_addr, num_pages from
\* A1..A3; GetGuestMeasurement reads version, type, page_addr from A1..A3; an
\* A6 above 7 is InvalidParam.
C23_TeeFieldsFromWireRegisters ==
    TeeEcallDecoded =>
        IF gprs_in[A6] \in 0..7
        THEN /\ msg.val.ok
             /\ msg.val.val.ext = "Tee"
             /\ DecodedTee.fn = TeeFunctionOfA6[gprs_in[A6] + 1]
             /\ IF DecodedTee.fn = "TvmCreate" THEN DecodedTee.donor = gprs_in[A0]
                ELSE DecodedTee.guest_id = gprs_in[A0]
             /\ DecodedTee.fn = "AddPageTablePages" =>
                   /\ DecodedTee.page_addr = gprs_in[A1]
                   /\ DecodedTee.num_pages = gprs_in[A2]
             /\ DecodedTee.fn = "AddPages" =>
                   /\ DecodedTee.page_addr = gprs_in[A1]
                   /\ DecodedTee.page_type = gprs_in[A2]
                   /\ DecodedTee.num_pages = gprs_in[A3]
                   /\ DecodedTee.gpa = gprs_in[A4]
             /\ DecodedTee.fn = "RemovePages" =>
                   /\ DecodedTee.gpa = gprs_in[A1]
                   /\ DecodedTee.remap_addr = gprs_in[A2]
                   /\ DecodedTee.num_pages = gprs_in[A3]
             /\ DecodedTee.fn = "GetGuestMeasurement" =>
                   /\ DecodedTee.measurement_version = gprs_in[A1]
                   /\ DecodedTee.measurement_type = gprs_in[A2]
                   /\ DecodedTee.page_addr = gprs_in[A3]
             /\ tee_call = DecodedTee
        ELSE /\ msg.val = Err("InvalidParam")
             /\ tee_call = NoCall

\* An AddPages whose five argument registers all differ has been decoded
C23_Witness ==
    /\ TeeEcallDecoded
    /\ gprs_in[A6] = 3
    /\ Cardinality({gprs_in[r] : r \in {A0, A1, A2, A3, A4}}) = 5
    /\ msg.val.ok
    /\ DecodedTee.fn = "AddPages"
    /\ DecodedTee.page_type = gprs_in[A2]

\* C24: an AddPages received with A5 = 1 is decoded and dispatched with
\* measure_preserve true, one received with A5 = 0 with measure_preserve false.
C24_A5OneMeansMeasurePreserve ==
    (TeeEcallDecoded /\ gprs_in[A6] = 3 /\ gprs_in[A5] \in {0, 1}) =>
        /\ msg.val.ok
        /\ DecodedTee.measure_preserve = (gprs_in[A5] = 1)
        /\ tee_call.fn = "AddPages"
        /\ tee_call.measure_preserve = (gprs_in[A5] = 1)

\* C25: for every TeeFunction value f, decoding the registers A0..A6 that f
\* emits yields a value equal to f.
C25_TeeRoundTrip ==
    (msg.some /\ sent.some /\ sent.val.ext = "Tee") =>
        /\ gprs_in = ecall_regs(sent.val)
        /\ msg.val = Ok(sent.val)

\* C26: for every Reset message, decoding the registers A7, A6, A0, A1 that it
\* emits succeeds and yields the same reset_type and reason, with reset_type
\* carried in A0 and reason in A1 in both directions.
C26_ResetRoundTrip ==
    (msg.some /\ sent.some /\ sent.val.ext = "Reset") =>
        /\ msg.val.ok
        /\ msg.val.val.ext = "Reset"
        /\ msg.val.val.reset.reset_type = sent.val.reset.reset_type
        /\ msg.val.val.reset.reason = sent.val.reset.reason
        /\ ResetType_from_reg(gprs_in[A0]) = Ok(sent.val.reset.reset_type)
        /\ ResetReason_from_reg(gprs_in[A1]) = Ok(sent.val.reset.reason)

\* The extension the claim assigns to each A7
ExtensionOfA7(a7) ==
    CASE a7 = 1 -> "PutChar"
      [] a7 = 16 -> "Base"
      [] a7 = 4739917 -> "HartState"
      [] a7 = 1397904212 -> "Reset"
      [] a7 = 5522757 -> "Tee"
      [] OTHER -> "unknown"

\* The registers the claim lets decode within each extension
DecodableInExtension(ext, regs) ==
    CASE ext = "PutChar" -> TRUE
      [] ext = "Base" -> regs[A6] \in 0..5
      [] ext = "HartState" -> regs[A6] \in 0..3
      [] ext = "Reset" -> regs[A6] = 0 /\ regs[A0] \in {0, 1, 2} /\ regs[A1] \in {0, 2}
      [] ext = "Tee" -> regs[A6] \in 0..7
      [] OTHER -> FALSE

\* C27: A7 selects PutChar = 0x01, Base = 0x10, HartState = 0x48534D,
\* Reset = 0x53525354, TEE = 0x544545, and a7() of the decoded message is the
\* same tag; any other A7 is an unknown extension, reported as code -3; Base
\* decodes only A6 in 0..5, HartState only A6 in 0..3, Reset only A6 = 0 with
\* A0 in {0,1,2} and A1 in {0,2}; everything else is InvalidParam.
C27_ExtensionSelectedByA7 ==
    msg.some =>
        LET ext == ExtensionOfA7(gprs_in[A7])
        IN  IF ext = "unknown"
            THEN /\ msg.val = Err("UnknownSbiExtension")
                 /\ hart = "trap"
                 /\ gprs[A0] = -3
            ELSE IF DecodableInExtension(ext, gprs_in)
            THEN /\ msg.val.ok
                 /\ msg.val.val.ext = ext
                 /\ SbiMessage_a7(msg.val.val) = gprs_in[A7]
            ELSE msg.val = Err("InvalidParam")

\* An ecall with an A7 that names no extension has come back with -3
C27_Witness ==
    /\ hart = "trap"
    /\ msg.some
    /\ gprs_in[A7] = EXT_TEE + 1
    /\ msg.val = Err("UnknownSbiExtension")
    /\ gprs[A0] = SBI_ERR_INVALID_PARAM

-----------------------------------------------------------------------------
(* Capacity of the guest registry (SpecTee)                                 *)

\* A TvmCreate has returned that found the registry at capacity
CreateAtCapacity ==
    /\ TvmCreateReturned
    /\ tee_before.guests.some
    /\ Len(tee_before.guests.val) = guest_slots

RegistryWithinCapacity == guests.some => Len(guests.val) <= guest_slots

\* C28 as stated: the registry never holds more entries than the capacity of
\* its tracking pages; a TvmCreate issued when the registry is at capacity
\* fails with InvalidParam and adds no entry.
C28_CreateAtCapacityInvalidParam ==
    /\ RegistryWithinCapacity
    /\ CreateAtCapacity =>
          /\ tee_ret.error_code = SBI_ERR_INVALID_PARAM
          /\ guests = tee_before.guests

\* C28 amended: the registry never holds more entries than the capacity of its
\* tracking pages; a TvmCreate issued when the registry is at capacity fails
\* and adds no entry, with InvalidAddress when the donor address is not
\* 4 KiB-aligned and InvalidParam otherwise.
C28_CreateAtCapacityFails ==
    /\ RegistryWithinCapacity
    /\ CreateAtCapacity =>
          /\ tee_ret.error_code = IF AlignedPageAddr4k_new(tee_call.donor).some
                                  THEN SBI_ERR_INVALID_PARAM
                                  ELSE SBI_ERR_INVALID_ADDRESS
          /\ tee_ret.return_value = 0
          /\ guests = tee_before.guests

\* A full registry has refused good donor pages and holds what it held
C28_Witness ==
    /\ CreateAtCapacity
    /\ Len(guests.val) = guest_slots
    /\ tee_call.donor % (TopLevelAlignPages * PageSize4k) = 0
    /\ owned_by(tee_before.phys, DonorFrames, self_id)
    /\ tee_ret.error_code = SBI_ERR_INVALID_PARAM

-----------------------------------------------------------------------------
(* Run and TvmDestroy of one guest (SpecRun)                                *)

\* The hart is inside Vm::run of a guest
RunInProgress == hart = "guest"

\* C29: a TvmDestroy(k) is never carried out while a Run(k) is in progress: the
\* entry of the guest that is executing stays in the registry, Running, and a
\* TvmDestroy of the host returns only when no Run is in progress; a destroy
\* attempted from inside the running guest fails and removes nothing.
C29_NoDestroyDuringRun ==
    /\ RunInProgress =>
          /\ run_id # 0
          /\ tee_call = [fn |-> "Run", guest_id |-> run_id]
          /\ \E i \in 1..Len(guests.val) :
                guests.val[i].id = run_id /\ guests.val[i].tag = "Running"
          /\ guests = [tee_before.guests EXCEPT
                          !.val = [j \in 1..Len(@) |->
                                      IF @[j].id = run_id THEN Vm_run(@[j]) ELSE @[j]]]
          /\ guest_ret \in {NoReturn, SbiReturn_from_error("InvalidParam")}
    /\ (hart = "trap" /\ tee_call.fn = "TvmDestroy") => run_id = 0
    /\ ~RunInProgress => run_id = 0

\* The running guest has asked for its own destruction and is still registered
C29_Witness ==
    /\ RunInProgress
    /\ guest_ret.error_code = SBI_ERR_INVALID_PARAM
    /\ \E i \in 1..Len(guests.val) :
          guests.val[i].id = run_id /\ guests.val[i].has_run

-----------------------------------------------------------------------------
(* The sparse map populate_from builds (SpecSparse)                         *)

\* The regions of the memory map that do not continue the region before them
RunStarts ==
    {i \in 1..Len(mem_map) :
        i = 1 \/ mem_map[i - 1].base + mem_map[i - 1].size # mem_map[i].base}

\* The first and the last region of the k-th maximal run of contiguous regions
RunFirst(k) == CHOOSE i \in RunStarts : Cardinality({j \in RunStarts : j <= i}) = k
RunLast(k) == IF k = Cardinality(RunStarts) THEN Len(mem_map) ELSE RunFirst(k + 1) - 1

RECURSIVE PagesOfEntries(_)
PagesOfEntries(k) == IF k = 0 THEN 0 ELSE PagesOfEntries(k - 1) + sparse_map[k].num_pages

\* C30: populate_from produces a PageMap exactly when the memory map has at
\* most 16 maximal runs of contiguous regions; in the PageMap it produces the
\* sparse map has one entry per run, in ascending base_pfn order and without
\* overlap, at most 16 entries; each page_map_index is the sum of num_pages of
\* the entries before, and there are as many PageInfo slots as the entries'
\* num_pages add up to.
C30_SparseMapWellFormed ==
    /\ mstate = "panicked" => Cardinality(RunStarts) > MAX_SPARSE_MAP_ENTRIES
    /\ mstate = "populated" =>
          /\ Len(sparse_map) = Cardinality(RunStarts)
          /\ Len(sparse_map) <= MAX_SPARSE_MAP_ENTRIES
          /\ \A k \in 1..Len(sparse_map) :
                /\ sparse_map[k].base_pfn = mem_map[RunFirst(k)].base
                /\ sparse_map[k].num_pages =
                      FramesBefore(RunLast(k) + 1) - FramesBefore(RunFirst(k))
                /\ sparse_map[k].num_pages > 0
                /\ sparse_map[k].page_map_index = PagesOfEntries(k - 1)
                /\ k > 1 => sparse_map[k - 1].base_pfn + sparse_map[k - 1].num_pages
                                < sparse_map[k].base_pfn
          /\ Len(pages) = PagesOfEntries(Len(sparse_map))

\* A memory map of 17 regions in 16 runs, populated: the sparse map is full
C30_Witness ==
    /\ mstate = "populated"
    /\ Len(mem_map) = MAX_SPARSE_MAP_ENTRIES + 1
    /\ Len(sparse_map) = MAX_SPARSE_MAP_ENTRIES
    /\ \E k \in 1..Len(sparse_map) : sparse_map[k].num_pages = 2
    /\ Len(pages) = MAX_SPARSE_MAP_ENTRIES + 1

-----------------------------------------------------------------------------
(* Lookups in a populated PageMap (SpecMap)                                 *)

\* The index of a frame in the PageInfo array, counted from the memory map
SlotOf(pfn) == FramesBefore(RegionOf(pfn)) + pfn - mem_map[RegionOf(pfn)].base

CoveringEntries(pfn) ==
    {k \in 1..Len(sparse_map) :
        sparse_map[k].base_pfn <= pfn
            /\ pfn < sparse_map[k].base_pfn + sparse_map[k].num_pages}

\* entry.page_map_index + pfn(addr) - entry.base_pfn of a covering entry
IndexIn(k, pfn) == sparse_map[k].page_map_index + pfn - sparse_map[k].base_pfn

\* The lookup the last call made, and whether it returned none
IsLookup == mop \in {"get", "num_after", "get_mut_push_owner", "get_mut_pop_owner"}

LookupNone ==
    CASE mop = "get" -> mres.info = None
      [] mop = "num_after" -> mres = None
      [] OTHER -> mres.ref = None

\* The lookup returned what belongs to index i
LookupAt(i) ==
    CASE mop = "get" -> mres.index = Some(i) /\ mres.info = Some(pages[i + 1])
      [] mop = "num_after" -> mres = Some(Len(pages) - i)
      [] OTHER -> mres.ref = Some(i)

\* C32: get, get_mut and num_after use the index entry.page_map_index +
\* pfn(addr) - entry.base_pfn of the one sparse-map entry that covers
\* pfn(addr); they return none for an address whose page size is not 4 KiB
\* and for an address no entry covers.
C32_IndexFromCoveringEntry ==
    IsLookup =>
        IF is_huge(maddr.size) \/ CoveringEntries(maddr.pfn) = {}
        THEN LookupNone
        ELSE /\ Cardinality(CoveringEntries(maddr.pfn)) = 1
             /\ \A k \in CoveringEntries(maddr.pfn) : LookupAt(IndexIn(k, maddr.pfn))

\* get_mut of a frame of the second of two separate runs
C32_Witness ==
    /\ mop = "get_mut_push_owner"
    /\ maddr.size = "Size4k"
    /\ Len(sparse_map) = 2
    /\ CoveringEntries(maddr.pfn) = {2}
    /\ maddr.pfn > sparse_map[2].base_pfn
    /\ mres.ref = Some(sparse_map[1].num_pages + 1)

-----------------------------------------------------------------------------
(* Changes made through get_mut (SpecMut)                                   *)

Frame(pfn) == PageAddr(pfn, "Size4k")

\* The frames of all regions of the memory map
MappedFrames == {pfn \in 1..MaxPfn : RegionOf(pfn) # 0}

IsGetMut == mop \in {"get_mut_push_owner", "get_mut_pop_owner"}

\* What the update made through the reference does to the PageInfo it is given
UpdateOf(p) == IF mop = "get_mut_push_owner" THEN push_owner(p, host) ELSE pop_owner(p)

\* C33: two different frames of the memory map never resolve to the same
\* PageInfo slot; a push_owner or pop_owner made through get_mut(a) changes
\* the PageInfo of frame a only, every other frame's PageInfo and the sparse
\* map stay as they were, and a get_mut that returns none changes nothing;
\* get and num_after leave the PageMap as populate_from or the last get_mut
\* left it.
C33_GetMutTouchesOneFrame ==
    /\ mstate \in {"populated", "mutated"} =>
          /\ \A p, q \in MappedFrames :
                p # q => get_map_index(sparse_map, Frame(p)) # get_map_index(sparse_map, Frame(q))
          /\ sparse_map = populate_from(mem_map).sparse_map
          /\ Len(pages) = TotalFrames
    /\ mstate = "populated" => pages = populate_from(mem_map).pages
    /\ IsGetMut =>
          /\ Len(pages) = Len(mres.before)
          /\ \A p \in MappedFrames :
                LET was == get(mres.before, sparse_map, Frame(p))
                    is == get(pages, sparse_map, Frame(p))
                IN  IF maddr = Frame(p)
                    THEN /\ is = Some(UpdateOf(was.val).page)
                         /\ mres.res = UpdateOf(was.val).res
                    ELSE is = was
          /\ (is_huge(maddr.size) \/ ~(maddr.pfn \in MappedFrames)) => pages = mres.before

\* A frame of the second run was given to the host and the other frames kept
\* their PageInfo
C33_Witness ==
    /\ mop = "get_mut_push_owner"
    /\ maddr.size = "Size4k"
    /\ Len(sparse_map) = 2
    /\ CoveringEntries(maddr.pfn) = {2}
    /\ mres.res = Ok(Unit)
    /\ owner(pages[mres.ref.val + 1]) = Some(host)
    /\ pages # mres.before
    /\ pages[1] = mres.before[1]

-----------------------------------------------------------------------------
(* The backing memory of the PageInfo array (SpecBuild)                     *)

\* Frames the PageInfo array of all frames of the memory map takes
ArrayFrames == (TotalFrames + PageInfosPerFrame - 1) \div PageInfosPerFrame

\* The Available regions large enough for the array
RoomFor == {i \in 1..Len(mem_map) :
               mem_map[i].mem_type = "Available" /\ mem_map[i].size >= ArrayFrames}

BuildFromReturned == mop = "build_from" /\ mstate = "populated"

\* C34: build_from puts the PageInfo array at the base of the first Available
\* region that is at least page_map_size large and aborts when there is none;
\* in the PageMap it returns every frame of the array's range is Reserved and
\* every other frame has the PageInfo its region's type gives it.
C34_ArrayRangeReserved ==
    /\ mstate = "panicked" => RoomFor = {}
    /\ mstate = "populated" =>
          /\ RoomFor # {}
          /\ Len(pages) = TotalFrames
    /\ BuildFromReturned =>
          /\ \E i \in RoomFor :
                /\ \A j \in RoomFor : i <= j
                /\ mres.base = mem_map[i].base
          /\ mres.num = ArrayFrames
          /\ \A pfn \in 1..MaxPfn :
                LET info == get(pages, sparse_map, Frame(pfn))
                IN  IF RegionOf(pfn) = 0 THEN info = None
                    ELSE IF mres.base <= pfn /\ pfn < mres.base + mres.num
                         THEN info = Some(Reserved)
                         ELSE info = Some(ExpectedInfo(mem_map[RegionOf(pfn)].mem_type))

\* The array went into the second Available region, the first being too
\* small for it
C34_Witness ==
    /\ BuildFromReturned
    /\ Len(mem_map) = 2
    /\ mem_map[1].mem_type = "Available"
    /\ mem_map[2].mem_type = "Available"
    /\ mem_map[1].size < mres.num
    /\ mres.base = mem_map[2].base
    /\ get(pages, sparse_map, Frame(mem_map[1].base)) = Some(Free)
    /\ get(pages, sparse_map, Frame(mres.base + mres.num - 1)) = Some(Reserved)

-----------------------------------------------------------------------------
(* The loop of Vm::run (SpecLoop)                                           *)

\* C35: inside Vm::run every ecall of the VM is handled by one call of the
\* dispatcher, which has returned before the VM is entered again, and sepc
\* has moved by 4 for each handled ecall, failed or not; Vm::run returns
\* only on a trap that is neither an ecall nor a serviced guest page fault,
\* and a guest page fault whose service failed is returned as that fault.
C35_RunLoop ==
    /\ hart = "ecall" =>
          /\ trap = [cause |-> VirtualSupervisorEnvCall, serviced |-> FALSE]
          /\ msg = None
    /\ hart \in {"trap", "returned"} =>
          /\ trap = [cause |-> VirtualSupervisorEnvCall, serviced |-> TRUE]
          /\ msg.some
    /\ hart = "vm" => msg = None
    /\ hart # "off" => sepc = 4 * handled
    /\ hart = "off" =>
          /\ msg.val.ok /\ msg.val.val.ext = "Reset"
          /\ sepc = 4 * (handled - 1)
    /\ run_ret.some <=> hart = "exited"
    /\ run_ret.some =>
          /\ run_ret.val = trap.cause
          /\ trap.cause \in GuestPageFaults \cup OtherTraps
          /\ ~trap.serviced
    /\ (trap.cause \in GuestPageFaults /\ trap.serviced) => (hart = "vm" /\ run_ret = None)

\* Two ecalls were handled, then a store page fault could not be serviced
C35_Witness ==
    /\ run_ret = Some("GuestStorePageFault")
    /\ handled = 2
    /\ sepc = 8
    /\ hart = "exited"

-----------------------------------------------------------------------------
(* The root owner of a page (Spec)                                          *)

\* The bottom entry of the ownership stack of an Owned page
RootOwner(p) == p.owners[1]

\* C36: once a page is Owned the bottom entry of its ownership stack stays the
\* same through every push_owner, pop_owner and pop_owners_while: a page that
\* was Owned before the last operation, or before the one before it, is Owned
\* now with the same root owner, and find_owner with a predicate that is
\* always true finds an owner on it.
C36_RootOwnerKept ==
    /\ before.tag = "Owned" =>
          /\ page.tag = "Owned"
          /\ RootOwner(page) = RootOwner(before)
    /\ before2.tag = "Owned" =>
          /\ page.tag = "Owned"
          /\ RootOwner(page) = RootOwner(before2)
    /\ (op = "find_owner" /\ arg = OwnerIds /\ before2.tag = "Owned") =>
          /\ res.some
          /\ res.val = page.owners[Len(page.owners)]

\* pop_owners_while with an always-true predicate took a full stack down to
\* its root owner
C36_Witness ==
    /\ op = "pop_owners_while"
    /\ arg = OwnerIds
    /\ before.tag = "Owned"
    /\ Len(before.owners) = MAX_PAGE_OWNERS
    /\ page = Owned(<<RootOwner(before)>>)
    /\ before.owners[2] # RootOwner(before)

-----------------------------------------------------------------------------
(* Finalize of a guest that is Running (SpecTee)                            *)

FinalizeOnRunning ==
    /\ FinalizeReturned
    /\ \E i \in NamedBefore : tee_before.guests.val[i].tag = "Running"

\* C37: Finalize(k) on a guest that is already Running returns success and
\* leaves the registry, the guest's Vm with it, and every frame exactly as
\* they were: the Vm is not created again and keeps its has_run.
C37_FinalizeOnRunningIsNoOp ==
    FinalizeOnRunning =>
        /\ tee_ret = SbiReturn_success(0)
        /\ CallChangedNothing
        /\ \A i \in NamedBefore : guests.val[i] = tee_before.guests.val[i]

\* Finalize of a guest that has pages and has been run
C37_Witness ==
    /\ FinalizeOnRunning
    /\ \E i \in NamedBefore :
          /\ tee_before.guests.val[i].has_run
          /\ tee_before.guests.val[i].mapped # {}
          /\ guests.val[i].has_run
          /\ guests.val[i].tag = "Running"
    /\ tee_ret = SbiReturn_success(0)

-----------------------------------------------------------------------------
(* Guests of guests (SpecRun)                                               *)

\* The running guest has issued TvmCreate and has its answer
GuestCreateReturned ==
    /\ hart = "guest"
    /\ sent.some
    /\ sent.val.tee.fn = "TvmCreate"
    /\ guest_ret # NoReturn

\* C38: a Vm made by Finalize has no guest registry and no TEE call gives it
\* one: every Running entry of the host's registry holds a Vm whose guests is
\* none, before and after it has run and whatever it has called, and a
\* TvmCreate the running guest issues returns InvalidParam for every donor
\* address.
C38_GuestsHaveNoRegistry ==
    /\ \A i \in 1..Len(guests.val) :
          guests.val[i].tag = "Running" => guests.val[i].guests = None
    /\ guests.some
    /\ GuestCreateReturned => guest_ret = SbiReturn_from_error("InvalidParam")

\* The running guest asked for a guest of its own with a well-aligned donor
C38_Witness ==
    /\ GuestCreateReturned
    /\ AlignedPageAddr4k_new(sent.val.tee.donor).some
    /\ sent.val.tee.donor = TopLevelAlignPages * PageSize4k
    /\ guest_ret.error_code = SBI_ERR_INVALID_PARAM
    /\ \E i \in 1..Len(guests.val) :
          guests.val[i].id = run_id /\ guests.val[i].has_run /\ guests.val[i].guests = None

-----------------------------------------------------------------------------
(* What changes the lifecycle state of a guest (SpecTee)                    *)

\* The entries of a registry that carry the id
EntriesOf(reg, id) == {i \in 1..Len(reg.val) : reg.val[i].id = id}

\* The last TEE call names the guest with this id
CallNames(id) == tee_call.fn # "TvmCreate" /\ tee_call.guest_id = id

\* C39: a TEE call changes the lifecycle state of a guest only as Finalize
\* (Initializing to Running) and removes a guest only as TvmDestroy, in both
\* cases the guest it names: an entry for another guest is in the registry
\* after the call as it was before, and no call leaves a guest Initializing
\* that was Running.
C39_StateChangesOnlyByFinalizeAndDestroy ==
    hart = "trap" =>
        \A i \in 1..Len(tee_before.guests.val) :
            LET b == tee_before.guests.val[i]
                now == EntriesOf(guests, b.id)
            IN  /\ now = {} => (tee_call.fn = "TvmDestroy" /\ CallNames(b.id))
                /\ \A j \in now :
                      LET a == guests.val[j]
                      IN  /\ a.tag \in {"Init", "Running"}
                          /\ b.tag = "Running" => a.tag = "Running"
                          /\ a.tag # b.tag => (tee_call.fn = "Finalize" /\ CallNames(b.id))
                          /\ ~CallNames(b.id) => a = b

\* TvmDestroy took one guest out of a registry of two and left the other, a
\* Running guest, as it was
C39_Witness ==
    /\ hart = "trap"
    /\ tee_call.fn = "TvmDestroy"
    /\ tee_ret = SbiReturn_success(0)
    /\ Len(tee_before.guests.val) = 2
    /\ Len(guests.val) = 1
    /\ guests.val[1].tag = "Running"
    /\ guests.val[1].id # tee_call.guest_id
    /\ guests.val[1] \in {tee_before.guests.val[i] : i \in 1..2}

-----------------------------------------------------------------------------
(* A destroyed guest id stays unusable (SpecDestroy)                        *)

\* The TEE functions that work on an existing guest
GuestFunctions ==
    {"AddPageTablePages", "AddPages", "Finalize", "Run", "RemovePages", "GetGuestMeasurement"}

\* The last TEE call is one of them and names a destroyed id
CallOnDestroyed ==
    /\ hart = "trap"
    /\ tee_call.fn \in GuestFunctions
    /\ tee_call.guest_id \in destroyed

\* C40: once TvmDestroy(k) has returned success, and until a TvmCreate returns
\* the id k again, every AddPageTablePages, AddPages, Finalize, Run,
\* RemovePages and GetGuestMeasurement that names k returns an error and
\* enters no guest: the registry, with the has_run mark of every entry, is
\* after the call what it was before.
C40_DestroyedIdStaysUnusable ==
    CallOnDestroyed =>
        /\ tee_ret.error_code # SBI_SUCCESS
        /\ guests = tee_before.guests

\* Run names a guest that was finalized and then destroyed, and fails
C40_Witness ==
    /\ CallOnDestroyed
    /\ tee_call.fn = "Run"
    /\ tee_call.guest_id \in finalized
    /\ tee_ret.error_code # SBI_SUCCESS

====
